---- MODULE Spec2Model ----
(***************************************************************************)
(* A model of the Epoch/Fugue toolchain: the two-pass bytecode loader      *)
(* (Shared/Bytecode/Loading.cpp), the arithmetic operation builders        *)
(* (Parser/Op Generation/Arithmetic.cpp) and the parser state machine's    *)
(* flow-control and infix handlers (Parser State Machine/FlowControl.cpp,  *)
(* Infix.cpp).                                                             *)
(*                                                                         *)
(* The state is three records: ld is the FileLoader, ps the ParserState,   *)
(* rt the result of writing one operation to bytecode and loading it back. *)
(* Each subsystem has its own specification; the records of the other      *)
(* subsystems stay as constructed.                                         *)
(***************************************************************************)
EXTENDS Integers, Sequences, FiniteSets, TLC

VARIABLES ld, ps, rt

vars == <<ld, ps, rt>>

\* ------------------------------------------------------------------------
\* Bounds
\* ------------------------------------------------------------------------

\* Parent-scope ids tried for a nested scope of a stream: 0 (none) .. MaxParentId.
MaxParentId == 3

\* Ghost owner ids tried: 1 .. MaxOwnerId.
MaxOwnerId == 2

\* Function ids tried as the target of an Invoke: 1 .. MaxFuncId.
MaxFuncId == 2

\* Header flag words tried: 0 .. MaxFlags.
MaxFlags == 2

\* ------------------------------------------------------------------------
\* Bytecode streams.  A stream is a sequence of items; an item is one
\* instruction byte together with the fixed-size operands that follow it.
\* ------------------------------------------------------------------------

Tok(t, a, b) == [t |-> t, a |-> a, b |-> b]

T0(t) == Tok(t, 0, 0)

Cat3(x, y, z) == x \o y \o z

Cat4(w, x, y, z) == w \o x \o y \o z

\* Scope <id> ParentScope <parent> ... Ghosts <n> {GhostRecord} Functions <n>
\* {function} ResponseMaps <n> {map} EndScope
ScopeToks(id, parent, ghosts, nfuncs, funcs, nmaps, maps) ==
    <<Tok("Scope", id, parent), Tok("Ghosts", Len(ghosts), 0)>>
    \o [i \in 1..Len(ghosts) |-> Tok("GhostRecord", ghosts[i], 0)]
    \o <<Tok("Functions", nfuncs, 0)>> \o funcs
    \o <<Tok("ResponseMaps", nmaps, 0)>> \o maps
    \o <<T0("EndScope")>>

LeafScope(id, parent) == ScopeToks(id, parent, <<>>, 0, <<>>, 0, <<>>)

GhostScope(id, parent, owner) == ScopeToks(id, parent, <<owner>>, 0, <<>>, 0, <<>>)

\* name, id, pad, then params scope, returns scope, BeginBlock, local scope, code
UserFunc(fid, params, returns, local, code) ==
    <<Tok("Func", fid, 0)>> \o params \o returns \o <<T0("BeginBlock")>>
    \o local \o code \o <<T0("EndBlock")>>

\* name, id, pad, CallDLL, library and entry names, return type, params scope
DllFunc(fid, params) == <<Tok("Func", fid, 1)>> \o params

\* <op> BeginBlock scope code EndBlock
BlockOp(name, scope, code) ==
    <<T0(name), T0("BeginBlock")>> \o scope \o code \o <<T0("EndBlock")>>

BlockToks(scope, code) == <<T0("BeginBlock")>> \o scope \o code \o <<T0("EndBlock")>>

\* If <true block | Null> <ElseIfWrapper block | Null> <false block | Null>
IfOp(trueblk, wrapper, falseblk) == Cat4(<<T0("If")>>, trueblk, wrapper, falseblk)

NoBlock == <<T0("Null")>>

WrapperToks(scope, code) == <<T0("ElseIfWrapper")>> \o BlockToks(scope, code)

ElseIfOp(scope, code) == <<T0("ElseIf")>> \o BlockToks(scope, code)

\* AcceptMessage name, payload types, BeginBlock scope code EndBlock aux-scope
AcceptOp(scope, code, aux) == <<T0("AcceptMessage")>> \o BlockToks(scope, code) \o aux

\* map name and entry count, then per entry: message, payload, block, aux scope
MapToks(entries, n) == <<Tok("RMap", n, 0)>> \o entries

EntryToks(scope, code, aux) == <<T0("RMEntry")>> \o BlockToks(scope, code) \o aux

Header(flags) == <<Tok("Cookie", 1, 0), Tok("Flags", flags, 0), Tok("Extensions", 1, 0)>>

Trailer(init) == <<T0("GlobalBlock")>> \o init \o <<Tok("ExtensionData", 0, 0)>>

\* ------------------------------------------------------------------------
\* FileLoader state.  Scope objects are numbered: 0 is NULL, 1 the running
\* program's global scope, 2.. the scopes the loader allocates.  Functions
\* and blocks are numbered from 1 in allocation order.
\* ------------------------------------------------------------------------

GlobalScope == 1

NewScopeDescription == [parent |-> 0, ghosts |-> <<>>, maps |-> {}]

Frame(k, st) ==
    [k |-> k, st |-> st, nm |-> "", a |-> 0, sid |-> 0, cnt |-> 0, cnt2 |-> 0, tgt |-> 0,
     s1 |-> 0, s2 |-> 0, s3 |-> 0, b1 |-> 0, b2 |-> 0, b3 |-> 0, hB |-> {}]

Op(name, a, blks, sub) == [op |-> name, a |-> a, blks |-> blks, sub |-> sub]

Top(L) == L.frames[Len(L.frames)]

SetTop(L, f) == [L EXCEPT !.frames[Len(L.frames)] = f]

PushFrame(L, f) == [L EXCEPT !.frames = Append(@, f)]

PopFrame(L) == [L EXCEPT !.frames = SubSeq(@, 1, Len(@) - 1)]

MapPut(m, k, v) == [x \in DOMAIN m \cup {k} |-> IF x = k THEN v ELSE m[x]]

\* The blocks an operation owns, through any operation it wraps.
RECURSIVE OpBlocks(_)
OpBlocks(o) ==
    {o.blks[i] : i \in 1..Len(o.blks)} \cup
    UNION {OpBlocks(o.sub[i]) : i \in 1..Len(o.sub)}

\* Everything deleted along with the scopes S, blocks B and functions F:
\* a scope deletes its functions and response maps, a function its parameter
\* and return scopes and its code, a block its bound scope and operations.
RECURSIVE Reach(_, _, _, _)
Reach(L, S, B, F) ==
    LET F2 == F \cup {f \in 1..Len(L.funcs) : L.funcs[f].decl \in S}
        B2 == (B \cup {L.funcs[f].body : f \in F2}
                 \cup UNION {UNION {OpBlocks(L.blocks[b].ops[i]) :
                                     i \in 1..Len(L.blocks[b].ops)} : b \in B}
                 \cup UNION {L.scopes[s].maps : s \in S}) \ {0}
        S2 == S \cup {o[3] : o \in {x \in L.owns :
                        \/ x[1] \in {"params", "returns"} /\ x[2] \in F2
                        \/ x[1] \in {"block", "aux"} /\ x[2] \in B2}}
    IN  IF S2 = S /\ B2 = B /\ F2 = F THEN <<S, B, F>> ELSE Reach(L, S2, B2, F2)

\* delete of the scopes S0 and the blocks B0
Destroy(L, S0, B0) ==
    LET r == Reach(L, S0, B0, {})
        dead == {x \in L.owns :
                    \/ x[1] \in {"params", "returns"} /\ x[2] \in r[3]
                    \/ x[1] \in {"block", "aux"} /\ x[2] \in r[2]}
    IN  [L EXCEPT !.owns = @ \ dead,
                  !.freed = [s \in DOMAIN @ |->
                                @[s] + (IF s \in S0 THEN 1 ELSE 0)
                                     + Cardinality({x \in dead : x[3] = s})]]

RegisterScopeToDelete(L, scope) == [L EXCEPT !.DeleteScopes = @ \cup {scope}]

\* A loader whose UnregisterScopeToDelete leaves the scope in the set.
C4_StaysRegistered(L, scope) == L

UnregisterScopeToDelete(L, scope) == [L EXCEPT !.DeleteScopes = @ \ {scope}]

\* A loader whose Clean frees nothing.
C3_CleanNothing(L) == L

Clean(L) == [Destroy(L, L.DeleteScopes, {}) EXCEPT !.DeleteScopes = {}]

\* An exception leaves the constructor: the auto_ptrs of the frames being
\* unwound delete what they hold, then the handler runs Clean and rethrows.
Throw(L) ==
    LET held == UNION {L.frames[i].hB : i \in 1..Len(L.frames)}
    IN  [Clean(Destroy(L, {}, held)) EXCEPT !.pc = "failed", !.frames = <<>>]

\* Dereferencing a NULL pointer or an end iterator: the run is undefined.
Undefined(L) == [L EXCEPT !.pc = "undefined", !.ub = TRUE]

BindToScope(L, blk, scope) ==
    [L EXCEPT !.blocks[blk].scope = scope,
              !.owns = IF scope = 0 THEN @ ELSE @ \cup {<<"block", blk, scope>>}]

AddOperation(L, blk, o) == [L EXCEPT !.blocks[blk].ops = Append(@, o)]

\* FileLoader::WidenAndCache: the string joins the Program's pool of static
\* strings. A string of the stream is named by its role and the id it
\* accompanies.
WidenAndCache(L, str) == [L EXCEPT !.StaticStrings = @ \cup {str}]

NewBlock(L) == [L EXCEPT !.blocks = Append(@, [ops |-> <<>>, scope |-> 0])]

\* ScopeIDMap[id]: operator[] yields NULL for an id that was never inserted.
ScopeOf(L, id) == IF id \in DOMAIN L.ScopeIDMap THEN L.ScopeIDMap[id] ELSE 0

\* A loader that allocates nested scopes where they are defined in pass 2.
C2_AllocatesInSecondPass(isPrepass) == ~isPrepass

\* The pass in which LoadScope allocates and registers a nested scope.
AllocatesScope(isPrepass) == isPrepass

\* The pass in which a function stub is created and registered.
RegistersFunction(isPrepass) == isPrepass

\* LoadCodeBlock allocating its block in both passes.
C17_MaterializesInPrepass(L) ==
    LET n == Len(L.blocks) + 1
    IN  PushFrame(NewBlock(L), [Frame("block", 1) EXCEPT !.b1 = n, !.hB = {n}])

\* LoadCodeBlock is entered: operations exist only in the second pass.
CallLoadCodeBlock(L) ==
    IF L.IsPrepass
    THEN PushFrame(L, Frame("block", 1))
    ELSE LET n == Len(L.blocks) + 1
         IN  PushFrame(NewBlock(L), [Frame("block", 1) EXCEPT !.b1 = n, !.hB = {n}])

\* An operation has just been generated into its block: every enclosing
\* PushOperation wraps the tail operation of that block.
RECURSIVE OpDone(_)
OpDone(L) ==
    IF L.pc \in {"failed", "undefined"} \/ L.frames = <<>> THEN L
    ELSE LET f == Top(L)
         IN  IF f.k = "push" /\ f.st = 2
             THEN LET L1 == PopFrame(L)
                      ops == L.blocks[f.tgt].ops
                  IN  IF L.IsPrepass THEN OpDone(L1)
                      ELSE OpDone([L1 EXCEPT !.blocks[f.tgt].ops =
                               Append(SubSeq(ops, 1, Len(ops) - 1),
                                      Op("PushOperation", 0, <<>>, <<ops[Len(ops)]>>))])
             ELSE L

\* Lines 343-355: the function shell in pass 1, its body in pass 2.
FinishFunction(L, f, blk) ==
    LET L1 == PopFrame(L)
        decl == ScopeOf(L, f.sid)
    IN  IF RegistersFunction(L.IsPrepass)
        THEN LET n == Len(L.funcs) + 1
                 L2 == [WidenAndCache(L1, <<"function", f.a>>) EXCEPT
                          !.funcs = Append(@, [dll |-> FALSE, params |-> f.s1,
                                               returns |-> f.s2, body |-> 0,
                                               decl |-> decl]),
                          !.owns = @ \cup {<<"params", n, f.s1>>, <<"returns", n, f.s2>>},
                          !.FunctionIDMap = MapPut(@, f.a, n)]
             IN  IF decl = 0 THEN Undefined(L1)
                 ELSE UnregisterScopeToDelete(UnregisterScopeToDelete(L2, f.s1), f.s2)
        ELSE IF f.a \notin DOMAIN L.FunctionIDMap THEN Undefined(L1)
        ELSE LET fn == L.FunctionIDMap[f.a]
                 L2 == BindToScope(UnregisterScopeToDelete(L1, f.s3), blk, f.s3)
             IN  IF L.funcs[fn].dll THEN Undefined(L1)
                 ELSE [L2 EXCEPT !.funcs[fn].body = blk]

\* Lines 327-334: a CallDLL stub owns its parameter scope from pass 1 on.
FinishCallDLL(L, f, params) ==
    LET L1 == PopFrame(L)
        decl == ScopeOf(L, f.sid)
        n == Len(L.funcs) + 1
    IN  IF ~L.IsPrepass THEN L1
        ELSE IF decl = 0 THEN Undefined(L1)
        ELSE [UnregisterScopeToDelete(L1, params) EXCEPT
                 !.StaticStrings = @ \cup {<<"library", f.a>>, <<"entry", f.a>>,
                                           <<"function", f.a>>},
                 !.funcs = Append(@, [dll |-> TRUE, params |-> params, returns |-> 0,
                                      body |-> 0, decl |-> decl]),
                 !.owns = @ \cup {<<"params", n, params>>},
                 !.FunctionIDMap = MapPut(@, f.a, n)]

\* The block operation is finished with the parent link its scope was
\* loaded with.
C11_KeepsRecordedParent(L, f, blk) ==
    LET L1 == PopFrame(L)
        L3 == BindToScope(UnregisterScopeToDelete(L1, f.s1), blk, f.s1)
    IN  IF L.IsPrepass THEN OpDone(L1)
        ELSE IF f.s1 = 0 /\ f.nm \in {"ForkTask", "ForkThread"} THEN Undefined(L1)
        ELSE OpDone(AddOperation(L3, f.tgt, Op(f.nm, 0, <<blk>>, <<>>)))

\* DoWhile, While, ElseIf, BeginBlock, ForkTask, ForkThread, ParallelFor:
\* bind the block to its scope, taken off the rollback set, and add the op.
FinishBlockOp(L, f, blk) ==
    LET L1 == PopFrame(L)
        L2 == IF f.nm \in {"ForkTask", "ForkThread"}
              THEN [L1 EXCEPT !.scopes[f.s1].parent = GlobalScope] ELSE L1
        L3 == BindToScope(UnregisterScopeToDelete(L2, f.s1), blk, f.s1)
    IN  IF L.IsPrepass THEN OpDone(L1)
        ELSE IF f.s1 = 0 /\ f.nm \in {"ForkTask", "ForkThread"} THEN Undefined(L1)
        ELSE OpDone(AddOperation(L3, f.tgt, Op(f.nm, 0, <<blk>>, <<>>)))

\* Lines 798-799: the finished If is added to the block being loaded.
FinishIf(L, f) ==
    LET L1 == PopFrame(L)
    IN  IF L.IsPrepass THEN OpDone(L1)
        ELSE OpDone(AddOperation(L1, f.tgt, Op("If", 0, <<f.b1, f.b2, f.b3>>, <<>>)))

\* An AcceptMessage that takes the auxiliary scope but leaves it registered.
C5_AcceptKeepsAux(L, f, aux) ==
    LET L1 == PopFrame(L)
        L2 == BindToScope(UnregisterScopeToDelete(L1, f.s1), f.b1, f.s1)
    IN  IF L.IsPrepass THEN OpDone(L1)
        ELSE OpDone(AddOperation(L2, f.tgt, Op("AcceptMessage", 0, <<f.b1>>, <<>>)))

\* Lines 1174-1178: the response block is bound, the auxiliary scope handed
\* to the AcceptMessage operation.
FinishAccept(L, f, aux) ==
    LET L1 == PopFrame(L)
        L2 == BindToScope(UnregisterScopeToDelete(L1, f.s1), f.b1, f.s1)
        L3 == [UnregisterScopeToDelete(L2, aux) EXCEPT
                  !.owns = IF aux = 0 THEN @ ELSE @ \cup {<<"aux", f.b1, aux>>}]
    IN  IF L.IsPrepass THEN OpDone(L1)
        ELSE OpDone(AddOperation(WidenAndCache(L3, <<"message", f.b1>>), f.tgt,
                                 Op("AcceptMessage", 0, <<f.b1>>, <<>>)))

\* Lines 516-525: the entry joins the map under construction; the map joins
\* the scope once its last entry is read.
FinishMapEntry(L, f, aux) ==
    LET L1 == PopFrame(L)
        L2 == BindToScope(UnregisterScopeToDelete(L1, f.s1), f.b1, f.s1)
        L3 == IF L.IsPrepass THEN L1
              ELSE [UnregisterScopeToDelete(L2, aux) EXCEPT
                      !.StaticStrings = @ \cup {<<"message", f.b1>>},
                      !.owns = IF aux = 0 THEN @ ELSE @ \cup {<<"aux", f.b1, aux>>}]
        g == Top(L1)
        held == IF L.IsPrepass THEN {} ELSE g.hB \cup {f.b1}
        obj == ScopeOf(L, g.a)
    IN  IF g.cnt2 > 1
        THEN SetTop(L3, [g EXCEPT !.cnt2 = @ - 1, !.hB = held])
        ELSE IF L.IsPrepass
        THEN SetTop(L3, [g EXCEPT !.cnt2 = 0, !.cnt = @ - 1, !.st = 4])
        ELSE IF obj = 0 THEN Undefined(L3)
        ELSE SetTop([L3 EXCEPT !.scopes[obj].maps = @ \cup held],
                    [g EXCEPT !.cnt2 = 0, !.cnt = @ - 1, !.st = 4, !.hB = {}])

\* LoadScope or LoadCodeBlock returns v to the frame that called it.
Deliver(L, v) ==
    IF L.frames = <<>>
    THEN [L EXCEPT !.pc = IF L.IsPrepass THEN "SecondPass" ELSE "LoadGlobalInitBlock"]
    ELSE
    LET f == Top(L)
        bind == IF L.IsPrepass THEN L
                ELSE BindToScope(UnregisterScopeToDelete(L, f.s1), v, f.s1)
        hold == IF v = 0 THEN f.hB ELSE f.hB \cup {v}
    IN  CASE f.k = "func" /\ f.st = 1 -> SetTop(L, [f EXCEPT !.s1 = v, !.st = 2])
          [] f.k = "func" /\ f.st = 2 -> SetTop(L, [f EXCEPT !.s2 = v, !.st = 3])
          [] f.k = "func" /\ f.st = 4 ->
                CallLoadCodeBlock(SetTop(L, [f EXCEPT !.s3 = v, !.st = 5]))
          [] f.k = "func" /\ f.st = 5 -> FinishFunction(L, f, v)
          [] f.k = "func" /\ f.st = 11 -> FinishCallDLL(L, f, v)
          [] f.k \in {"blockop", "accept", "rm"} /\ f.st = 2 ->
                CallLoadCodeBlock(SetTop(L, [f EXCEPT !.s1 = v, !.st = 3]))
          [] f.k = "blockop" /\ f.st = 3 -> FinishBlockOp(L, f, v)
          [] f.k \in {"accept", "rm"} /\ f.st = 3 ->
                SetTop(L, [f EXCEPT !.b1 = v, !.st = 4, !.hB = hold])
          [] f.k = "accept" /\ f.st = 4 -> FinishAccept(L, f, v)
          [] f.k = "rm" /\ f.st = 4 -> FinishMapEntry(L, f, v)
          [] f.k = "if" /\ f.st \in {2, 7, 10} ->
                CallLoadCodeBlock(SetTop(L, [f EXCEPT !.s1 = v, !.st = @ + 1]))
          [] f.k = "if" /\ f.st = 3 ->
                SetTop(bind, [f EXCEPT !.b1 = v, !.st = 4, !.hB = hold])
          [] f.k = "if" /\ f.st = 8 ->
                SetTop(bind, [f EXCEPT !.b2 = v, !.hB = hold,
                    !.st = IF L.Offset < Len(L.Buffer)
                              /\ L.Buffer[L.Offset + 1].t = "ElseIf" THEN 5 ELSE 9])
          [] f.k = "if" /\ f.st = 11 ->
                FinishIf(bind, [f EXCEPT !.b3 = v, !.hB = hold])
          [] f.k = "global" ->
                [PopFrame(L) EXCEPT !.globalInit = v, !.pc = "LoadExtensionData"]
          [] OTHER -> Undefined(L)

\* The frame states in which the next call is LoadScope(false).
AwaitsScope(f) ==
    \/ f.k = "func" /\ f.st \in {1, 2, 4, 11}
    \/ f.k \in {"blockop", "accept", "rm"} /\ f.st = 2
    \/ f.k \in {"accept", "rm"} /\ f.st = 4
    \/ f.k = "if" /\ f.st \in {2, 7, 10}

\* Lines 243-256: the scope id is registered, the parent link resolved.
LoadScopeEnter(L, tok, linktoglobal) ==
    LET id == tok.a
        n == Len(L.scopes) + 1
        L1 == IF linktoglobal
              THEN [L EXCEPT !.ScopeIDMap = MapPut(@, id, GlobalScope)]
              ELSE IF AllocatesScope(L.IsPrepass)
              THEN [RegisterScopeToDelete(L, n) EXCEPT
                       !.scopes = Append(@, NewScopeDescription),
                       !.freed = Append(@, 0),
                       !.ScopeIDMap = MapPut(@, id, n)]
              ELSE L
        obj == ScopeOf(L1, id)
        L2 == IF tok.b = 0 \/ L.IsPrepass THEN L1
              ELSE IF tok.b \notin DOMAIN L1.ScopeIDMap \/ obj = 0 THEN Undefined(L1)
              ELSE [L1 EXCEPT !.scopes[obj].parent = L1.ScopeIDMap[tok.b],
                              !.resolved = @ \cup {<<"parent", tok.b, L1.ScopeIDMap[tok.b]>>}]
    IN  IF tok.t # "Scope" THEN Throw(L)
        ELSE IF L2.ub THEN L2
        ELSE PushFrame(L2, [Frame("scope", 1) EXCEPT !.a = id])

\* Lines 290-556, one item at a time, for the scope frame f.
LoadScopeItem(L, f, tok) ==
    LET obj == ScopeOf(L, f.a)
    IN  CASE f.st = 1 ->
               IF tok.t = "Ghosts" THEN SetTop(L, [f EXCEPT !.st = 2, !.cnt = tok.a])
               ELSE Throw(L)
          [] f.st = 2 /\ f.cnt > 0 ->
               IF tok.t # "GhostRecord" THEN Throw(L)
               ELSE IF L.IsPrepass THEN SetTop(L, [f EXCEPT !.cnt = @ - 1])
               ELSE IF tok.a \notin DOMAIN L.ScopeIDMap \/ obj = 0 THEN Undefined(L)
               ELSE SetTop([L EXCEPT
                       !.StaticStrings = @ \cup {<<"variable", tok.a>>},
                       !.scopes[obj].ghosts = Append(@, L.ScopeIDMap[tok.a]),
                       !.resolved = @ \cup {<<"ghost", tok.a, L.ScopeIDMap[tok.a]>>}],
                       [f EXCEPT !.cnt = @ - 1])
          [] f.st = 2 /\ f.cnt = 0 ->
               IF tok.t = "Functions" THEN SetTop(L, [f EXCEPT !.st = 3, !.cnt = tok.a])
               ELSE Throw(L)
          [] f.st = 3 /\ f.cnt > 0 ->
               IF tok.t # "Func" THEN Throw(L)
               ELSE PushFrame(SetTop(L, [f EXCEPT !.cnt = @ - 1]),
                              [Frame("func", IF tok.b = 1 THEN 11 ELSE 1)
                                  EXCEPT !.a = tok.a, !.sid = f.a])
          [] f.st = 3 /\ f.cnt = 0 ->
               IF tok.t = "ResponseMaps" THEN SetTop(L, [f EXCEPT !.st = 4, !.cnt = tok.a])
               ELSE Throw(L)
          [] f.st = 4 /\ f.cnt > 0 ->
               IF tok.t # "RMap" THEN Throw(L)
               ELSE IF tok.a = 0
               THEN SetTop(WidenAndCache(L, <<"map", f.a>>), [f EXCEPT !.cnt = @ - 1])
               ELSE SetTop(WidenAndCache(L, <<"map", f.a>>),
                           [f EXCEPT !.st = 5, !.cnt2 = tok.a])
          [] f.st = 4 /\ f.cnt = 0 ->
               IF tok.t # "EndScope" THEN Throw(L)
               ELSE Deliver([PopFrame(L) EXCEPT
                                !.ScopeIDMap = MapPut(@, f.a, obj)], obj)
          [] OTHER ->
               IF tok.t = "RMEntry" THEN PushFrame(L, Frame("rm", 1)) ELSE Throw(L)

\* ------------------------------------------------------------------------
\* Arithmetic operations and their opcodes
\* ------------------------------------------------------------------------

ArithFunctions == {"add", "subtract", "multiply", "divide"}

NumericTypes == {"Integer", "Integer16", "Real"}

\* An arithmetic operation object: the class is the pair (fn, ty).
ArithOp(fn, ty, first, second, n) ==
    [op |-> "Arithmetic", a |-> 0, blks |-> <<>>, sub |-> <<>>,
     fn |-> fn, ty |-> ty, first |-> first, second |-> second, numParams |-> n]

\* The operation built by the default constructor (fold over one array).
FoldOp(fn, ty) == ArithOp(fn, ty, FALSE, FALSE, 1)

NoOp == Op("NoOp", 0, <<>>, <<>>)

\* The arithmetic opcodes GenerateOpFromByteCode has a branch for, with the
\* class each constructs (lines 678, 801, 814, 840, 853, 1180, 1248).
LoaderArithmetic ==
    [AddIntegers |-> <<"add", "Integer">>, SubtractIntegers |-> <<"subtract", "Integer">>,
     MultiplyIntegers |-> <<"multiply", "Integer">>, DivideIntegers |-> <<"divide", "Integer">>,
     AddReals |-> <<"add", "Real">>, SubReals |-> <<"subtract", "Real">>,
     DivideReals |-> <<"divide", "Real">>]

\* firstisarray = ReadFlag(); secondisarray = ReadFlag(); paramcount = ReadNumber()
DecodeArithmetic(tok) ==
    LET c == LoaderArithmetic[tok.t]
    IN  IF tok.b = 1 THEN FoldOp(c[1], c[2])
        ELSE ArithOp(c[1], c[2], (tok.a \div 2) % 2 = 1, tok.a % 2 = 1, 2)

\* The bytes an item takes in the buffer: its instruction byte, read by
\* ReadInstruction, and four for each number ReadNumber takes after it.
ItemSize(tok) ==
    CASE tok.t \in {"Scope", "Func"} -> 9
      [] tok.t \in {"Cookie", "Flags", "Extensions", "Ghosts", "GhostRecord", "Functions",
                    "ResponseMaps", "RMap", "Invoke", "TypeCast", "PushIntegerLiteral",
                    "ExtensionData"} -> 5
      [] tok.t \in {"GetValue", "AssignValue"} -> 3
      [] tok.t \in DOMAIN LoaderArithmetic -> 7
      [] OTHER -> 1

\* The bytes taken by items lo to hi of the buffer.
RECURSIVE BytesOf(_, _, _)
BytesOf(buf, lo, hi) ==
    IF lo > hi THEN 0
    ELSE IF lo = hi THEN ItemSize(buf[lo])
    ELSE LET mid == (lo + hi) \div 2
         IN  BytesOf(buf, lo, mid) + BytesOf(buf, mid + 1, hi)

\* Offset after the first n items of the buffer have been read.
ByteOffset(buf, n) == BytesOf(buf, 1, n)

\* The diagnostic reports Offset, which has passed the byte itself.
C12_ReportsOffsetAfterByte(L, tok) ==
    [Throw(L) EXCEPT !.diagnostic = [opcode |-> tok.t,
                                     offset |-> ByteOffset(L.Buffer, L.Offset - 1) + 1]]

\* Lines 1450-1456: ReadInstruction has moved Offset one byte past the
\* instruction; the diagnostic names the byte and Offset - 1.
UnknownOpcode(L, tok) ==
    LET Offset == ByteOffset(L.Buffer, L.Offset - 1) + 1
    IN  [Throw(L) EXCEPT !.diagnostic = [opcode |-> tok.t, offset |-> Offset - 1]]

\* Opcodes decoded into an operation without operands of interest here.
SimpleOpcodes == {"PushIntegerLiteral", "GetValue", "AssignValue", "ExitIfChain",
                  "WhileCondition"}

BlockOpcodes == {"DoWhile", "While", "ElseIf", "ForkTask", "ForkThread", "ParallelFor"}

\* GenerateOpFromByteCode(instruction, newblock), lines 650-1457: the
\* instruction tok has been read; tgt is newblock.
GenerateOpFromByteCode(L, tok, tgt) ==
    LET add(o) == IF L.IsPrepass THEN OpDone(L) ELSE OpDone(AddOperation(L, tgt, o))
        enter(k, st, nm) == PushFrame(L, [Frame(k, st) EXCEPT !.nm = nm, !.tgt = tgt])
    IN  CASE tok.t = "PushOperation" -> enter("push", 1, "PushOperation")
          [] tok.t = "Invoke" ->
               IF L.IsPrepass THEN OpDone(L)
               ELSE IF tok.a \notin DOMAIN L.FunctionIDMap THEN Undefined(L)
               ELSE OpDone(AddOperation(
                      [L EXCEPT !.resolved = @ \cup {<<"invoke", tok.a, L.FunctionIDMap[tok.a]>>}],
                      tgt, Op("Invoke", L.FunctionIDMap[tok.a], <<>>, <<>>)))
          [] tok.t \in DOMAIN LoaderArithmetic -> add(DecodeArithmetic(tok))
          [] tok.t \in {"GetValue", "AssignValue"} ->
               IF L.IsPrepass THEN OpDone(L)
               ELSE OpDone(AddOperation(WidenAndCache(L, <<"variable", tok.a>>), tgt,
                                        Op(tok.t, tok.a, <<>>, <<>>)))
          [] tok.t \in SimpleOpcodes -> add(Op(tok.t, tok.a, <<>>, <<>>))
          [] tok.t = "TypeCast" ->
               IF L.IsPrepass THEN OpDone(L)
               ELSE IF tok.a = 0 THEN Throw(L)
               ELSE OpDone(AddOperation(L, tgt, Op("TypeCast", tok.a, <<>>, <<>>)))
          [] tok.t \in BlockOpcodes -> enter("blockop", 1, tok.t)
          [] tok.t = "BeginBlock" -> enter("blockop", 2, "ExecuteBlock")
          [] tok.t = "If" -> enter("if", 1, "If")
          [] tok.t = "AcceptMessage" -> enter("accept", 1, "AcceptMessage")
          [] OTHER -> UnknownOpcode(L, tok)

\* The instruction read by an operation that is part-way through its operands.
GenerateOpItem(L, f, tok) ==
    CASE f.k = "push" -> GenerateOpFromByteCode(SetTop(L, [f EXCEPT !.st = 2]), tok, f.tgt)
      [] f.k \in {"blockop", "accept"} /\ f.st = 1 ->
           IF tok.t = "BeginBlock" THEN SetTop(L, [f EXCEPT !.st = 2]) ELSE Throw(L)
      [] f.k = "if" /\ f.st = 1 ->
           SetTop(L, [f EXCEPT !.st = IF tok.t = "BeginBlock" THEN 2 ELSE 4])
      [] f.k = "if" /\ f.st = 4 ->
           SetTop(L, [f EXCEPT !.st = IF tok.t = "ElseIfWrapper" THEN 5 ELSE 9])
      [] f.k = "if" /\ f.st = 5 ->
           IF tok.t = "ElseIf" THEN SetTop(L, [f EXCEPT !.st = 6])
           ELSE IF tok.t = "BeginBlock" THEN SetTop(L, [f EXCEPT !.st = 7])
           ELSE Throw(L)
      [] f.k = "if" /\ f.st = 6 ->
           IF tok.t = "BeginBlock" THEN SetTop(L, [f EXCEPT !.st = 7]) ELSE Throw(L)
      [] f.k = "if" /\ f.st = 9 ->
           IF tok.t = "BeginBlock" THEN SetTop(L, [f EXCEPT !.st = 10]) ELSE FinishIf(L, f)
      [] OTHER -> Undefined(L)

\* LoadCodeBlock, lines 636-643: one instruction of the block frame f.
LoadCodeBlockItem(L, f, tok) ==
    IF tok.t = "EndBlock" THEN Deliver(PopFrame(L), f.b1)
    ELSE GenerateOpFromByteCode(L, tok, f.b1)

\* ------------------------------------------------------------------------
\* The streams loaded.  Ids are those a writer hands out: unique per stream.
\* The scopes with the small ids 2, 3, 4 come late in the stream, so that a
\* parent, ghost-owner or Invoke id can name something not yet defined.
\* ------------------------------------------------------------------------

IfBody ==
    IfOp(BlockToks(LeafScope(9, 8), <<Tok("AssignValue", 1, 0)>>),
         WrapperToks(LeafScope(10, 8), ElseIfOp(LeafScope(11, 10), <<T0("ExitIfChain")>>)),
         BlockToks(LeafScope(12, 8), <<Tok("GetValue", 1, 0)>>))

WhileBody ==
    <<T0("PushOperation"), Tok("AddIntegers", 0, 2), T0("WhileCondition")>> \o IfBody

Body1(f, tc) ==
    <<Tok("Invoke", f, 0)>> \o BlockOp("While", LeafScope(8, 7), WhileBody)
    \o <<Tok("TypeCast", tc, 0)>>
    \o AcceptOp(LeafScope(13, 7), <<Tok("GetValue", 2, 0)>>, LeafScope(14, 0))

Body3 ==
    BlockOp("ForkTask", LeafScope(4, 2), <<T0("PushOperation"), Tok("Invoke", 4, 0)>>)
    \o <<Tok("Invoke", 1, 0)>>

RootFunctions(p, g, f, tc) ==
    Cat3(UserFunc(1, LeafScope(5, 0), LeafScope(6, 0), GhostScope(7, p, g), Body1(f, tc)),
         DllFunc(2, LeafScope(15, 0)),
         UserFunc(3, LeafScope(16, 0), LeafScope(17, 0),
                  ScopeToks(2, 1, <<>>, 1, DllFunc(4, LeafScope(3, 0)), 0, <<>>), Body3))

RootMaps ==
    MapToks(EntryToks(LeafScope(18, 1), <<Tok("PushIntegerLiteral", 7, 0)>>,
                      LeafScope(19, 0)), 1)

Stream(flags, p, g, f, tc) ==
    Cat3(Header(flags),
         ScopeToks(1, 0, <<>>, 3, RootFunctions(p, g, f, tc), 1, RootMaps),
         Trailer(<<T0("BeginBlock"), Tok("PushIntegerLiteral", 0, 0), T0("EndBlock")>>))

\* Items that start with an instruction byte the loader compares.
Checked(tok) == tok.t \notin {"Flags", "Extensions", "Func", "RMap", "RMEntry", "Null"}

\* The stream with the instruction byte of item k overwritten.
Corrupt(buf, k) == [i \in 1..Len(buf) |-> IF i = k THEN T0("Bad") ELSE buf[i]]

BaseStream == Stream(1, 2, 2, 2, 1)

Streams ==
    {Stream(fl, p, g, f, tc) : fl \in 0..MaxFlags, p \in 0..MaxParentId,
                               g \in 1..MaxOwnerId, f \in 1..MaxFuncId, tc \in {0, 1}}
    \cup {Corrupt(BaseStream, k) : k \in {i \in 1..Len(BaseStream) : Checked(BaseStream[i])}}

\* The scope and function ids defined inside the root scope of a stream.
ScopeIds(buf) == {buf[i].a : i \in {j \in 1..Len(buf) : buf[j].t = "Scope"}}

FunctionIds(buf) == {buf[i].a : i \in {j \in 1..Len(buf) : buf[j].t = "Func"}}

\* FileLoader::FileLoader, lines 67-72, before the first CheckCookie.
NewLoader(buf) ==
    [pc |-> "CheckCookie", Buffer |-> buf, Offset |-> 0, IsPrepass |-> TRUE,
     frames |-> <<>>, ScopeIDMap |-> <<>>, FunctionIDMap |-> <<>>,
     DeleteScopes |-> {}, scopes |-> <<NewScopeDescription>>, freed |-> <<0>>,
     funcs |-> <<>>, blocks |-> <<>>, owns |-> {}, resolved |-> {}, ub |-> FALSE,
     usesConsole |-> FALSE, globalInit |-> 0, StaticStrings |-> {},
     diagnostic |-> [opcode |-> "", offset |-> 0]]

NextTok(L) == IF L.Offset < Len(L.Buffer) THEN L.Buffer[L.Offset + 1] ELSE T0("EOF")

Advance(L) == [L EXCEPT !.Offset = @ + 1]

Running(L) == L.pc \notin {"failed", "undefined", "done", "destroyed"}

\* ------------------------------------------------------------------------
\* Loader actions
\* ------------------------------------------------------------------------

CheckCookie ==
    /\ ld.pc = "CheckCookie"
    /\ ld' = IF NextTok(ld).t = "Cookie" /\ NextTok(ld).a = 1
             THEN [Advance(ld) EXCEPT !.pc = "CheckFlags"]
             ELSE Throw(ld)
    /\ UNCHANGED <<ps, rt>>

CheckFlags ==
    /\ ld.pc = "CheckFlags"
    /\ ld' = [Advance(ld) EXCEPT !.pc = "CheckExtensions",
                                 !.usesConsole = @ \/ NextTok(ld).a # 0]
    /\ UNCHANGED <<ps, rt>>

CheckExtensions ==
    /\ ld.pc = "CheckExtensions"
    /\ ld' = [Advance(ld) EXCEPT
                !.pc = "LoadScope",
                !.StaticStrings = @ \cup {<<"extension", i>> : i \in 1..NextTok(ld).a}]
    /\ UNCHANGED <<ps, rt>>

LoadScope ==
    /\ ld.pc \in {"LoadScope", "LoadGlobalInitBlock"}
    /\ LET tok == NextTok(ld)
           L == Advance(ld)
       IN  \/ /\ ld.frames = <<>> /\ ld.pc = "LoadScope"
              /\ ld' = LoadScopeEnter(L, tok, TRUE)
           \/ /\ ld.frames # <<>> /\ AwaitsScope(Top(ld))
              /\ ld' = LoadScopeEnter(L, tok, FALSE)
           \/ /\ ld.frames # <<>> /\ Top(ld).k = "scope"
              /\ ld' = LoadScopeItem(L, Top(ld), tok)
           \/ /\ ld.frames # <<>>
              /\ <<Top(ld).k, Top(ld).st>> \in {<<"rm", 1>>, <<"func", 3>>}
              /\ ld' = IF tok.t = "BeginBlock"
                       THEN SetTop(L, [Top(ld) EXCEPT !.st = @ + 1]) ELSE Throw(L)
    /\ UNCHANGED <<ps, rt>>

LoadCodeBlock ==
    /\ ld.pc \in {"LoadScope", "LoadGlobalInitBlock"}
    /\ ld.frames # <<>> /\ Top(ld).k = "block"
    /\ ld' = LoadCodeBlockItem(Advance(ld), Top(ld), NextTok(ld))
    /\ UNCHANGED <<ps, rt>>

GenerateOpOperand ==
    /\ ld.pc \in {"LoadScope", "LoadGlobalInitBlock"}
    /\ ld.frames # <<>> /\ Top(ld).k \in {"push", "blockop", "if", "accept"}
    /\ ~AwaitsScope(Top(ld))
    /\ ld' = GenerateOpItem(Advance(ld), Top(ld), NextTok(ld))
    /\ UNCHANGED <<ps, rt>>

SecondPass ==
    /\ ld.pc = "SecondPass"
    /\ ld' = [ld EXCEPT !.Offset = 0, !.IsPrepass = FALSE, !.pc = "CheckCookie"]
    /\ UNCHANGED <<ps, rt>>

LoadGlobalInitBlock ==
    /\ ld.pc = "LoadGlobalInitBlock" /\ ld.frames = <<>>
    /\ LET L == Advance(Advance(ld))
       IN  ld' = IF NextTok(ld).t # "GlobalBlock" THEN Throw(ld)
                 ELSE IF NextTok(Advance(ld)).t = "BeginBlock"
                 THEN CallLoadCodeBlock(PushFrame(L, Frame("global", 1)))
                 ELSE [L EXCEPT !.pc = "LoadExtensionData"]
    /\ UNCHANGED <<ps, rt>>

LoadExtensionData ==
    /\ ld.pc = "LoadExtensionData"
    /\ ld' = IF NextTok(ld).t = "ExtensionData"
             THEN [Advance(ld) EXCEPT !.pc = "done"] ELSE Throw(ld)
    /\ UNCHANGED <<ps, rt>>

\* FileLoader::~FileLoader
Destructor ==
    /\ ld.pc = "done"
    /\ ld' = [Clean(ld) EXCEPT !.pc = "destroyed"]
    /\ UNCHANGED <<ps, rt>>

InitLoader ==
    /\ ld \in {NewLoader(buf) : buf \in Streams}
    /\ ps = 0
    /\ rt = 0

NextLoader ==
    \/ CheckCookie \/ CheckFlags \/ CheckExtensions \/ LoadScope \/ LoadCodeBlock
    \/ GenerateOpOperand \/ SecondPass \/ LoadGlobalInitBlock \/ LoadExtensionData
    \/ Destructor

SpecLoader == InitLoader /\ [][NextLoader]_vars

\* ------------------------------------------------------------------------
\* Loader properties
\* ------------------------------------------------------------------------

Allocated(L) == 2..Len(L.scopes)

Owners(L, s) == {x \in L.owns : x[3] = s}

\* Position in the stream of the item that defines scope or function id.
DefinedAt(buf, kind, id) ==
    CHOOSE i \in 1..Len(buf) : buf[i].t = kind /\ buf[i].a = id

PassesComplete(L) ==
    ~L.IsPrepass /\ L.pc \in {"LoadGlobalInitBlock", "LoadExtensionData", "done"}

\* C2: once pass 1 has completed, every scope id and function id of the
\* stream is registered, to a distinct object each, and every parent-scope
\* id, ghost owner id and Invoke operand read in pass 2 has resolved to the
\* object registered under that id; no lookup has missed.
C2_ReferencesResolve ==
    /\ ~ld.ub
    /\ ~ld.IsPrepass =>
          /\ ScopeIds(ld.Buffer) \subseteq DOMAIN ld.ScopeIDMap
          /\ FunctionIds(ld.Buffer) \subseteq DOMAIN ld.FunctionIDMap
          /\ \A i, j \in ScopeIds(ld.Buffer) :
                ld.ScopeIDMap[i] = ld.ScopeIDMap[j] => i = j
          /\ \A i \in ScopeIds(ld.Buffer) : ld.ScopeIDMap[i] \in 1..Len(ld.scopes)
          /\ \A i \in FunctionIds(ld.Buffer) : ld.FunctionIDMap[i] \in 1..Len(ld.funcs)
    /\ \A r \in ld.resolved :
          IF r[1] = "invoke"
          THEN r[2] \in DOMAIN ld.FunctionIDMap /\ r[3] = ld.FunctionIDMap[r[2]]
          ELSE r[2] \in DOMAIN ld.ScopeIDMap /\ r[3] = ld.ScopeIDMap[r[2]]

\* A parent id, a ghost owner id and an Invoke operand have each been
\* resolved in pass 2 before the item defining the id was reached.
C2_ForwardReferenceResolved ==
    /\ ~ld.IsPrepass /\ ~ld.ub
    /\ \A k \in {"parent", "ghost"} : \E r \in ld.resolved :
          r[1] = k /\ DefinedAt(ld.Buffer, "Scope", r[2]) > ld.Offset
    /\ \E r \in ld.resolved :
          r[1] = "invoke" /\ DefinedAt(ld.Buffer, "Func", r[2]) > ld.Offset

\* C3: when a failure leaves the loader, the rollback set is empty and every
\* scope that was in it has been freed exactly once; no scope is freed twice.
C3_FailureDrainsRollbackSet ==
    [][ld'.pc = "failed" =>
          /\ ld'.DeleteScopes = {}
          /\ \A s \in ld.DeleteScopes : ld'.freed[s] = 1
          /\ \A s \in Allocated(ld') : ld'.freed[s] <= 1]_vars

\* A failure in pass 2 has freed scopes from the rollback set and scopes of
\* partly built blocks, and left others with the functions that own them.
C3_FailedInSecondPass ==
    /\ ld.pc = "failed" /\ ~ld.IsPrepass
    /\ \E s \in Allocated(ld) : ld.freed[s] = 1
    /\ \E s \in Allocated(ld) : ld.freed[s] = 0
    /\ Len(ld.blocks) > 2

C5_RollbackEmptyAfterPasses == PassesComplete(ld) => ld.DeleteScopes = {}

\* Both passes completed over a stream that allocated nested scopes.
C5_LoadedWithScopes ==
    PassesComplete(ld) /\ Len(ld.scopes) > 10 /\ Cardinality(ld.owns) > 10

\* C17: during pass 1 the loader appends no operation to any block and
\* attaches no code block to any function: while pass 1 runs and when it has
\* ended no block exists and every registered function has a null body, so
\* a body is attached in pass 2 only.
C17_PrepassMaterializesNothing ==
    ld.IsPrepass /\ ~ld.ub =>
       /\ ld.blocks = <<>>
       /\ \A n \in DOMAIN ld.funcs : ld.funcs[n].body = 0

\* Pass 1 has ended with user functions registered under their ids.
C17_PrepassEndedWithFunctions ==
    /\ ld.pc = "SecondPass" /\ ld.IsPrepass
    /\ \E n \in DOMAIN ld.funcs : ~ld.funcs[n].dll /\ ld.funcs[n].body = 0

\* C18: the loader marks the Program as using the console if and only if
\* bit 0 of the header's flags word is set.
C18_ConsoleIffBitZero ==
    [][ld.pc = "CheckFlags" /\ ld'.pc = "CheckExtensions" =>
          (ld'.usesConsole <=> NextTok(ld).a % 2 = 1)]_vars

\* C19: strings read from the stream are interned into the Program's string
\* pool only during pass 2; pass 1 adds no string to the pool.
C19_PrepassInternsNothing ==
    [][ld.IsPrepass /\ ld'.IsPrepass => ld'.StaticStrings = ld.StaticStrings]_vars

\* ------------------------------------------------------------------------
\* ParserState.  Blocks and scopes are numbered from 1 in allocation order;
\* 0 is NULL.  Scope 1 is the program's global scope.
\* ------------------------------------------------------------------------

Back(q) == q[Len(q)]

Pop(q) == SubSeq(q, 1, Len(q) - 1)

\* An entry of TheStack: an identifier carries the type of its variable, an
\* operation entry the type its operation yields.
StackEntry(type, name, ty) ==
    [Type |-> type, name |-> name, ty |-> ty, isArray |-> FALSE,
     cons |-> FALSE, elem |-> "Null"]

\* An operation built by the parser: ty is what GetType answers, cond the
\* type of the condition a flow-control operation was built from.
POp(name, ty) ==
    [op |-> name, ty |-> ty, cond |-> "", id |-> "", blk |-> 0, wrapper |-> 0,
     falseblk |-> 0, sub |-> <<>>]

\* ParserState::ParserState, then the state on entry to a function body:
\* the function identifier on TheStack, its code block on Blocks.
NewParserState ==
    [Blocks |-> <<[TheBlock |-> 1, Type |-> "FUNCTION_NOCREATE"]>>,
     heap |-> <<[ops |-> <<>>, scope |-> 2]>>,
     scopes |-> <<[parent |-> 0, destroyed |-> FALSE], [parent |-> 1, destroyed |-> FALSE]>>,
     CurrentScope |-> 2,
     TheStack |-> <<StackEntry("IDENTIFIER", "f", "Function")>>,
     ExpectedBlockTypes |-> <<>>,
     DisplacedScopes |-> <<>>,
     DeferredOperations |-> <<>>,
     OpAssignmentOperator |-> "", SavedStringSlot_IncDec |-> "",
     PassedParameterCount |-> <<>>,
     InfixOperatorList |-> <<>>,
     InfixOperandCount |-> <<>>,
     ParseFailed |-> FALSE, threw |-> FALSE, ub |-> FALSE, dangling |-> FALSE,
     codeBlock |-> 0,
     ph |-> "stmt", pending |-> "", syn |-> <<[kind |-> "function", blk |-> 1]>>,
     marks |-> <<>>,
     used |-> [k \in {"if", "elseif", "else", "loop", "free", "fork", "stmt"} |-> 0], built |-> NoOp,
     phrase |-> [targets |-> <<>>, operands |-> <<>>, operators |-> <<>>, earlier |-> <<>>]]

ReportFatalError(P) == [P EXCEPT !.ParseFailed = TRUE]

\* A ParserFailureException aborts the build.
ParserFailure(P) == [P EXCEPT !.threw = TRUE]

\* back() or pop_back() on an empty container, or a NULL dereference.
UndefinedParse(P) == [P EXCEPT !.ub = TRUE]

Alive(P) == ~P.threw /\ ~P.ub

NewParseBlock(P, parent) ==
    [P EXCEPT !.heap = Append(@, [ops |-> <<>>, scope |-> Len(P.scopes) + 1]),
              !.scopes = Append(@, [parent |-> parent, destroyed |-> FALSE])]

AddOperationToCurrentBlock(P, o) ==
    IF P.Blocks = <<>> THEN UndefinedParse(P)
    ELSE [P EXCEPT !.heap[Back(P.Blocks).TheBlock].ops = Append(@, o)]

PopBlocks(P) == IF P.Blocks = <<>> THEN UndefinedParse(P) ELSE [P EXCEPT !.Blocks = Pop(@)]

PopTheStack(P) ==
    IF P.TheStack = <<>> THEN UndefinedParse(P) ELSE [P EXCEPT !.TheStack = Pop(@)]

\* The auto_ptr holding an exited block goes out of scope with the block
\* still in it: the block is deleted, and with it the scope bound to it.
DestroyBlock(P, blk) ==
    IF P.ub THEN P ELSE [P EXCEPT !.scopes[P.heap[blk].scope].destroyed = TRUE]

\* CurrentScope = CurrentScope->ParentScope; the read of a deleted scope's
\* member is undefined.
ToParentScope(P) ==
    IF P.CurrentScope = 0 THEN UndefinedParse(P)
    ELSE IF P.scopes[P.CurrentScope].destroyed
    THEN [UndefinedParse(P) EXCEPT !.dangling = TRUE]
    ELSE [P EXCEPT !.CurrentScope = P.scopes[P.CurrentScope].parent]

\* Block::GetOperationFromEnd walked from offset 0 past ElseIfWrapper
\* operations: the index of the If found, or 0.
WalkToIf(ops) ==
    LET cand == {i \in 1..Len(ops) : ops[i].op # "ElseIfWrapper"}
        i == CHOOSE x \in cand : \A y \in cand : y <= x
    IN  IF cand # {} /\ ops[i].op = "If" THEN i ELSE 0

\* RegisterControl(controlname, false), lines 41-106
RegisterControl(P, name) ==
    LET expect(t) == [P EXCEPT !.ExpectedBlockTypes = Append(@, t)]
        b == Back(P.Blocks).TheBlock
        i == WalkToIf(P.heap[b].ops)
        w == Len(P.heap) + 1
        P1 == IF P.heap[b].ops[i].wrapper # 0 THEN P
              ELSE [NewParseBlock(P, P.CurrentScope) EXCEPT !.heap[b].ops[i].wrapper = w]
        nb == Len(P.heap) + 1
    IN  CASE name = "do" -> expect("DOLOOP")
          [] name = "if" -> expect("IF")
          [] name = "else" -> expect("ELSE")
          [] name = "elseif" ->
               IF P.Blocks = <<>> THEN UndefinedParse(P)
               ELSE IF i = 0 THEN ParserFailure(P)
               ELSE [P1 EXCEPT
                       !.Blocks = Append(@, [TheBlock |-> P1.heap[b].ops[i].wrapper,
                                             Type |-> "ELSEIFWRAPPER"]),
                       !.ExpectedBlockTypes = Append(@, "ELSEIF")]
          [] name = "while" ->
               [NewParseBlock(P, P.CurrentScope) EXCEPT
                   !.Blocks = Append(@, [TheBlock |-> nb, Type |-> "WHILELOOP"]),
                   !.CurrentScope = Len(P.scopes) + 1,
                   !.ExpectedBlockTypes = Append(@, "WHILELOOP")]
          [] name = "parallelfor" -> expect("PARALLELFOR")
          [] OTHER -> ParserFailure(P)

\* GetTailOperation()->GetType(scope) of the block on top of Blocks
TailIsBoolean(P) ==
    LET ops == P.heap[Back(P.Blocks).TheBlock].ops
    IN  ops[Len(ops)].ty = "Boolean"

\* EnterBlock, lines 177-301
EnterBlock(P) ==
    LET type == IF P.ExpectedBlockTypes = <<>> THEN "FREE" ELSE Back(P.ExpectedBlockTypes)
        nb == Len(P.heap) + 1
        fork == type \in {"TASK", "THREAD"}
        P0 == IF fork THEN [P EXCEPT !.DisplacedScopes = Append(@, P.CurrentScope)] ELSE P
        P1 == [NewParseBlock(P0, IF fork THEN GlobalScope ELSE P.CurrentScope) EXCEPT
                 !.CurrentScope = Len(P.scopes) + 1]
        P2 == IF type \in {"IF", "ELSEIF"} /\ ~TailIsBoolean(P)
              THEN ReportFatalError(P1) ELSE P1
    IN  IF type = "WHILELOOP" THEN [P EXCEPT !.ExpectedBlockTypes = Pop(@)]
        ELSE IF type \in {"IF", "ELSEIF"}
                /\ (P.Blocks = <<>> \/ P.heap[Back(P.Blocks).TheBlock].ops = <<>>)
        THEN UndefinedParse(P)
        ELSE [P2 EXCEPT !.Blocks = Append(@, [TheBlock |-> nb, Type |-> type]),
                        !.ExpectedBlockTypes = IF @ = <<>> THEN @ ELSE Pop(@)]

\* The rejected-condition exits of ExitBlock: report, pop, leave the scope.
RejectCondition(P, popWrapper) ==
    LET P1 == ReportFatalError(P)
        P2 == IF popWrapper THEN PopBlocks(P1) ELSE P1
    IN  ToParentScope(PopTheStack(P2))

\* case BLOCKENTRYTYPE_IF, lines 357-394
ExitBlock_If(P) ==
    LET entry == Back(P.TheStack)
        ifblock == Back(P.Blocks).TheBlock
        P1 == PopBlocks(P)
        ifop == [POp("If", "Null") EXCEPT !.blk = ifblock, !.cond = entry.ty]
    IN  IF P.TheStack = <<>> \/ P.CurrentScope = 0 THEN UndefinedParse(P)
        ELSE IF entry.Type \notin {"IDENTIFIER", "OPERATION"} \/ entry.ty # "Boolean"
        THEN DestroyBlock(RejectCondition(P1, FALSE), ifblock)
        ELSE ToParentScope(PopTheStack(AddOperationToCurrentBlock(P1, ifop)))

\* Whether the rejecting branch taken for the entry leaves ExitBlock at once
\* (lines 412 and 431); the branch for an operation entry, 417-423, does not.
ElseIfRejectReturns(entryType) == entryType # "OPERATION"

\* case BLOCKENTRYTYPE_ELSEIF, lines 396-438
ExitBlock_ElseIf(P) ==
    LET entry == Back(P.TheStack)
        savedblock == Back(P.Blocks).TheBlock
        P1 == [PopBlocks(P) EXCEPT !.heap[savedblock].ops = Append(@, POp("ExitIfChain", "Null"))]
        elseif == [POp("ElseIf", "Null") EXCEPT !.blk = savedblock, !.cond = entry.ty]
        rejected == entry.Type \notin {"IDENTIFIER", "OPERATION"} \/ entry.ty # "Boolean"
        P2 == IF rejected THEN RejectCondition(P1, TRUE) ELSE P1
        P3 == IF P2.ub THEN P2 ELSE AddOperationToCurrentBlock(P2, elseif)
        P4 == IF P3.ub THEN P3 ELSE PopBlocks(P3)
        P5 == IF P4.ub THEN P4 ELSE PopTheStack(P4)
    IN  IF P.TheStack = <<>> \/ P.CurrentScope = 0 THEN UndefinedParse(P)
        ELSE IF rejected /\ ElseIfRejectReturns(entry.Type) THEN DestroyBlock(P2, savedblock)
        ELSE IF P5.ub THEN P5 ELSE ToParentScope(P5)

\* case BLOCKENTRYTYPE_ELSE, lines 440-470
ExitBlock_Else(P) ==
    LET elseblock == Back(P.Blocks).TheBlock
        P1 == PopBlocks(P)
        b == Back(P1.Blocks).TheBlock
        i == WalkToIf(P1.heap[b].ops)
    IN  IF P1.Blocks = <<>> THEN UndefinedParse(P1)
        ELSE IF i = 0 THEN ToParentScope(DestroyBlock(ReportFatalError(P1), elseblock))
        ELSE ToParentScope([P1 EXCEPT !.heap[b].ops[i].falseblk = elseblock])

\* case BLOCKENTRYTYPE_WHILELOOP, lines 472-480
ExitBlock_While(P) ==
    LET body == Back(P.Blocks).TheBlock
        P1 == PopTheStack(PopBlocks(P))
        loop == [POp("WhileLoop", "Null") EXCEPT !.blk = body, !.cond = Back(P.TheStack).ty]
    IN  IF P1.ub THEN P1 ELSE ToParentScope(AddOperationToCurrentBlock(P1, loop))

\* case BLOCKENTRYTYPE_FREE, lines 482-489
ExitBlock_Free(P) ==
    LET body == Back(P.Blocks).TheBlock
    IN  ToParentScope(AddOperationToCurrentBlock(PopBlocks(P),
               [POp("ExecuteBlock", "Null") EXCEPT !.blk = body]))

\* case BLOCKENTRYTYPE_FUNCTION_NOCREATE, lines 335-352
ExitBlock_Function(P) ==
    IF P.TheStack = <<>> THEN UndefinedParse(P)
    ELSE IF Back(P.TheStack).Type # "IDENTIFIER" \/ Back(P.TheStack).ty # "Function"
    THEN ParserFailure(P)
    ELSE ToParentScope([P EXCEPT !.codeBlock = Back(P.Blocks).TheBlock,
                                 !.TheStack = Pop(@), !.Blocks = Pop(@)])

\* case BLOCKENTRYTYPE_TASK, lines 491-509, and BLOCKENTRYTYPE_THREAD,
\* lines 511-535: names is the number of string entries the keyword left.
ExitBlock_Fork(P, opname, names) ==
    LET body == Back(P.Blocks).TheBlock
        P1 == [P EXCEPT !.Blocks = Pop(@), !.CurrentScope = Back(P.DisplacedScopes)]
        stack == P.TheStack
        isString(k) == Len(stack) >= k /\ stack[Len(stack) - k + 1].ty = "String"
        P2 == AddOperationToCurrentBlock(P1, [POp(opname, "Null") EXCEPT !.blk = body])
    IN  IF P.DisplacedScopes = <<>> THEN UndefinedParse(P)
        ELSE IF \E k \in 1..names : ~isString(k)
        THEN ParserFailure([P1 EXCEPT !.TheStack =
                              IF names = 2 /\ isString(1) THEN Pop(@) ELSE @])
        ELSE IF P2.ub THEN P2
        ELSE [P2 EXCEPT !.TheStack = SubSeq(@, 1, Len(@) - names),
                        !.DisplacedScopes = Pop(@)]

\* case BLOCKENTRYTYPE_PARALLELFOR, lines 542-582
ExitBlock_ParallelFor(P) ==
    LET body == Back(P.Blocks).TheBlock
        P1 == [P EXCEPT !.Blocks = Pop(@)]
        stack == P.TheStack
        isInteger(k) == Len(stack) >= k /\ stack[Len(stack) - k + 1].ty = "Integer"
        bad == {k \in 1..3 : ~isInteger(k)}
        popped == (CHOOSE k \in bad : \A j \in bad : k <= j) - 1
        P2 == [P1 EXCEPT !.TheStack = SubSeq(@, 1, Len(@) - 3)]
        success == P2.TheStack # <<>> /\ Back(P2.TheStack).Type = "IDENTIFIER"
        P3 == IF success
              THEN AddOperationToCurrentBlock(P2,
                     [POp("ParallelFor", "Null") EXCEPT !.blk = body,
                                                        !.id = Back(P2.TheStack).name])
              ELSE ReportFatalError(P2)
    IN  IF bad # {}
        THEN DestroyBlock(ParserFailure([P1 EXCEPT !.TheStack = SubSeq(@, 1, Len(@) - popped)]),
                          body)
        ELSE IF P3.ub THEN P3
        ELSE IF success THEN ToParentScope(PopTheStack(P3))
        ELSE DestroyBlock(ToParentScope(PopTheStack(P3)), body)

\* RegisterEndOfParallelFor, lines 776-785
RegisterEndOfParallelFor(P) ==
    LET P1 == IF Back(P.PassedParameterCount) # 4 THEN ReportFatalError(P) ELSE P
    IN  IF P.PassedParameterCount = <<>> \/ Len(P.TheStack) < 4 THEN UndefinedParse(P)
        ELSE [P1 EXCEPT !.PassedParameterCount = Pop(@)]

\* ExitBlock, lines 327-627
ExitBlock(P) ==
    IF P.Blocks = <<>> THEN UndefinedParse(P)
    ELSE LET type == Back(P.Blocks).Type
         IN  CASE type = "FUNCTION_NOCREATE" -> ExitBlock_Function(P)
               [] type = "DOLOOP" -> ToParentScope(P)
               [] type = "IF" -> ExitBlock_If(P)
               [] type = "ELSEIF" -> ExitBlock_ElseIf(P)
               [] type = "ELSE" -> ExitBlock_Else(P)
               [] type = "WHILELOOP" -> ExitBlock_While(P)
               [] type = "FREE" -> ExitBlock_Free(P)
               [] type = "PARALLELFOR" -> ExitBlock_ParallelFor(P)
               [] type = "TASK" -> ExitBlock_Fork(P, "ForkTask", 1)
               [] type = "THREAD" -> ExitBlock_Fork(P, "ForkThread", 2)
               [] OTHER -> ParserFailure(P)

\* PopDoWhileLoop, lines 129-152
PopDoWhileLoop(P) ==
    LET entry == Back(P.TheStack)
        loopblock == Back(P.Blocks).TheBlock
        ops == P.heap[loopblock].ops
        P1 == IF ops[Len(ops)].ty # "Boolean" THEN ReportFatalError(P) ELSE P
        loop == [POp("DoWhileLoop", "Null") EXCEPT !.blk = loopblock, !.cond = entry.ty]
    IN  IF P.TheStack = <<>> \/ P.Blocks = <<>> THEN UndefinedParse(P)
        ELSE IF entry.Type # "OPERATION"
        THEN PopTheStack(PopBlocks(ReportFatalError(P)))
        ELSE IF ops = <<>> THEN UndefinedParse(P)
        ELSE PopTheStack(AddOperationToCurrentBlock(PopBlocks(P1), loop))

\* RegisterEndOfWhileLoopConditional, lines 165-170
RegisterEndOfWhileLoopConditional(P) ==
    AddOperationToCurrentBlock(P, POp("WhileLoopConditional", "Null"))

\* ---------------------------------------------------------------------
\* The flow-control builder driven by the parser's events.

\* How many constructs of each kind a function body holds.
MaxIfs == 2

MaxElseIfs == 1

MaxElses == 1

MaxLoops == 1

MaxFreeBlocks == 1

\* Nesting depth of open blocks below the function body.
MaxDepth == 2

ControlKind(name) == IF name \in {"while", "do"} THEN "loop" ELSE name

MaxOf(kind) ==
    CASE kind = "if" -> MaxIfs
      [] kind = "elseif" -> MaxElseIfs
      [] kind = "else" -> MaxElses
      [] kind = "loop" -> MaxLoops
      [] kind = "free" -> MaxFreeBlocks

\* What a parsed condition leaves behind: an expression leaves a
\* PushOperation of its type at the tail of the current block and an
\* operation entry on TheStack, a variable only an identifier entry.
Conditions ==
    {[Type |-> t, ty |-> y] : t \in {"OPERATION", "IDENTIFIER"}, y \in {"Boolean", "Integer"}}

PushCondition(P, c) ==
    LET e == StackEntry(c.Type, IF c.Type = "IDENTIFIER" THEN "v" ELSE "", c.ty)
        P1 == IF c.Type = "OPERATION"
              THEN AddOperationToCurrentBlock(P, POp("PushOperation", c.ty)) ELSE P
    IN  [P1 EXCEPT !.TheStack = Append(@, e)]

Building == Alive(ps) /\ ps.ph # "done"

\* The stacks as a construct's keyword finds them.
Mark(P) == [Blocks |-> Len(P.Blocks), TheStack |-> P.TheStack, CurrentScope |-> P.CurrentScope]

Depth == Len(ps.syn) - 1

\* if(, elseif(, while(, else and do
FlowRegisterControl ==
    /\ Building /\ ps.ph = "stmt" /\ Depth < MaxDepth
    /\ \E name \in {"if", "elseif", "else", "while", "do"} :
         /\ ps.used[ControlKind(name)] < MaxOf(ControlKind(name))
         /\ ps' = [RegisterControl(ps, name) EXCEPT
                     !.ph = IF name \in {"else", "do"} THEN "open" ELSE "cond",
                     !.pending = name, !.used[ControlKind(name)] = @ + 1,
                     !.marks = Append(@, Mark(ps))]
    /\ UNCHANGED <<ld, rt>>

\* the condition of if, elseif or while
FlowCondition ==
    /\ Building /\ ps.ph = "cond"
    /\ \E c \in Conditions :
         ps' = [PushCondition(ps, c) EXCEPT
                  !.ph = IF ps.pending = "while" THEN "endcond" ELSE "open"]
    /\ UNCHANGED <<ld, rt>>

\* ) of while
FlowEndOfWhileLoopConditional ==
    /\ Building /\ ps.ph = "endcond"
    /\ ps' = [RegisterEndOfWhileLoopConditional(ps) EXCEPT !.ph = "open"]
    /\ UNCHANGED <<ld, rt>>

\* { of a control construct
FlowEnterBlock ==
    /\ Building /\ ps.ph = "open"
    /\ LET blk == IF ps.pending = "while" /\ ps.Blocks # <<>>
                  THEN Back(ps.Blocks).TheBlock ELSE Len(ps.heap) + 1
       IN  ps' = [EnterBlock(ps) EXCEPT
                    !.ph = "stmt", !.pending = "",
                    !.syn = Append(@, [kind |-> ps.pending, blk |-> blk])]
    /\ UNCHANGED <<ld, rt>>

\* { of a free-standing block
FlowEnterFreeBlock ==
    /\ Building /\ ps.ph = "stmt" /\ ps.used.free < MaxFreeBlocks /\ Depth < MaxDepth
    /\ ps' = [EnterBlock(ps) EXCEPT
                !.used.free = @ + 1, !.marks = Append(@, Mark(ps)),
                !.syn = Append(@, [kind |-> "free", blk |-> Len(ps.heap) + 1])]
    /\ UNCHANGED <<ld, rt>>

\* }
FlowExitBlock ==
    /\ Building /\ ps.ph = "stmt"
    /\ ps' = [ExitBlock(ps) EXCEPT
                !.syn = Pop(@),
                !.marks = IF Back(ps.syn).kind \in {"do", "function"} THEN @ ELSE Pop(@),
                !.ph = IF Back(ps.syn).kind = "do" THEN "docond"
                       ELSE IF Depth = 0 THEN "done" ELSE "stmt"]
    /\ UNCHANGED <<ld, rt>>

\* while(condition) closing a do block
FlowPopDoWhileLoop ==
    /\ Building /\ ps.ph = "docond"
    /\ \E c \in Conditions :
         ps' = [PopDoWhileLoop(PushCondition(ps, c)) EXCEPT
                  !.ph = "stmt", !.marks = Pop(@)]
    /\ UNCHANGED <<ld, rt>>

InitFlow == ps = NewParserState /\ ld = 0 /\ rt = 0

NextFlow ==
    \/ FlowRegisterControl
    \/ FlowCondition
    \/ FlowEndOfWhileLoopConditional
    \/ FlowEnterBlock
    \/ FlowEnterFreeBlock
    \/ FlowExitBlock
    \/ FlowPopDoWhileLoop

SpecFlow == InitFlow /\ [][NextFlow]_vars

\* The operations of one kind anywhere in the parsed program, as <<block, index>>.
OpsNamed(P, names) ==
    {bi \in UNION {{<<b, i>> : i \in 1..Len(P.heap[b].ops)} : b \in 1..Len(P.heap)} :
        P.heap[bi[1]].ops[bi[2]].op \in names}

\* The function body has been closed and nothing aborted the build.
Completed(P) == P.ph = "done" /\ Alive(P)

\* C7: after the builder completes without a fatal error, the condition of
\* every if, elseif, while and do-while construct of the program is Boolean.
C7_ConditionsAreBoolean ==
    (Completed(ps) /\ ~ps.ParseFailed) =>
        \A bi \in OpsNamed(ps, {"If", "ElseIf", "WhileLoop", "DoWhileLoop"}) :
            ps.heap[bi[1]].ops[bi[2]].cond = "Boolean"

\* The Ifs whose ElseIfWrapper block is b.
WrapperHolders(P, b) ==
    {bi \in OpsNamed(P, {"If"}) : P.heap[bi[1]].ops[bi[2]].wrapper = b}

\* C9: every ElseIf emitted lies in the block of an ElseIfWrapper held by
\* exactly one If, whatever if / elseif / else events came before and whether
\* their conditions were accepted or rejected.
C9_ElseIfInsideWrapper ==
    Alive(ps) =>
        \A bi \in OpsNamed(ps, {"ElseIf"}) : Cardinality(WrapperHolders(ps, bi[1])) = 1

\* A step that closes the else block on top of the open constructs.
ClosesElse ==
    /\ Building /\ ps.ph = "stmt" /\ Back(ps.syn).kind = "else"
    /\ ps'.syn = Pop(ps.syn) /\ Alive(ps')

\* C10: closing an else block installs it as the falseBlock of the nearest
\* preceding If of the enclosing block and changes nothing else; with no such
\* If a fatal error is reported and no operation is modified.
C10_ElseInstallsOnNearestIf ==
    [][ClosesElse =>
          LET enclosing == ps.syn[Len(ps.syn) - 1].blk
              elseblock == Back(ps.syn).blk
              i == WalkToIf(ps.heap[enclosing].ops)
          IN  IF i # 0
              THEN ps'.heap = [ps.heap EXCEPT ![enclosing].ops[i].falseblk = elseblock]
              ELSE ps'.ParseFailed /\ ps'.heap = ps.heap]_vars

\* A step that closes a construct opened by a keyword or a free-standing {.
ClosesConstruct ==
    Building /\ ps.marks # <<>> /\ Len(ps'.marks) = Len(ps.marks) - 1 /\ Alive(ps')

\* C21: once a control construct has been closed, its condition accepted or
\* rejected, Blocks has the depth it had before the construct's keyword,
\* TheStack holds what it held then, and CurrentScope is the scope that was
\* current then.
C21_ConstructsAreBalanced ==
    [][ClosesConstruct =>
          /\ Len(ps'.Blocks) = Back(ps.marks).Blocks
          /\ ps'.TheStack = Back(ps.marks).TheStack
          /\ ps'.CurrentScope = Back(ps.marks).CurrentScope]_vars

\* C22: on every path of ExitBlock on which the exited block is destroyed
\* rather than attached (a rejected if, elseif, else or parallelfor), the
\* current scope moves to the parent before the block and its bound scope are
\* destroyed: the parent link is never read from a destroyed scope.
C22_ParentNeverReadFromDestroyedScope == ~ps.dangling

\* ---------------------------------------------------------------------
\* Arithmetic operation creation (Op Generation/Arithmetic.cpp).

\* StackEntry::DetermineEffectiveType and StackEntry::IsArray
DetermineEffectiveType(e) == e.ty

IsArray(e) == e.isArray

\* An operation entry whose operation is a ConsArray of the element type.
ConsArrayEntry(elem) ==
    [StackEntry("OPERATION", "", "Array") EXCEPT !.isArray = TRUE, !.cons = TRUE, !.elem = elem]

\* The builder without the comparison of the two operands' types.
C15_AcceptsMixedTypes(P, fn) ==
    LET n == Back(P.PassedParameterCount)
        e == Back(P.TheStack)
        rejected(Q) == [P |-> ReportFatalError(Q), op |-> NoOp]
        popped == [P EXCEPT !.TheStack = Pop(@)]
        second == Back(P.TheStack)
        first == Back(Pop(P.TheStack))
        popped2 == [P EXCEPT !.TheStack = Pop(Pop(@))]
    IN  IF P.PassedParameterCount = <<>> THEN [P |-> UndefinedParse(P), op |-> NoOp]
        ELSE IF n = 1
        THEN IF P.TheStack = <<>> THEN [P |-> UndefinedParse(P), op |-> NoOp]
             ELSE IF e.Type # "OPERATION" \/ e.ty # "Array" \/ ~e.cons THEN rejected(popped)
             ELSE IF e.elem \in NumericTypes THEN [P |-> popped, op |-> FoldOp(fn, e.elem)]
             ELSE rejected(popped)
        ELSE IF n # 2
        THEN IF n < 0 \/ Len(P.TheStack) < n THEN [P |-> UndefinedParse(P), op |-> NoOp]
             ELSE rejected([P EXCEPT !.TheStack = SubSeq(@, 1, Len(@) - n)])
        ELSE IF Len(P.TheStack) < 2 THEN [P |-> UndefinedParse(P), op |-> NoOp]
        ELSE IF DetermineEffectiveType(first) \in NumericTypes
        THEN [P |-> popped2,
              op |-> ArithOp(fn, DetermineEffectiveType(first), IsArray(first), IsArray(second), 2)]
        ELSE rejected(popped2)

\* The builder returning from a wrong arity before the operands are removed.
C16_KeepsOperandsOnWrongArity(P, fn) ==
    LET n == Back(P.PassedParameterCount)
        e == Back(P.TheStack)
        rejected(Q) == [P |-> ReportFatalError(Q), op |-> NoOp]
        popped == [P EXCEPT !.TheStack = Pop(@)]
        second == Back(P.TheStack)
        first == Back(Pop(P.TheStack))
        popped2 == [P EXCEPT !.TheStack = Pop(Pop(@))]
    IN  IF P.PassedParameterCount = <<>> THEN [P |-> UndefinedParse(P), op |-> NoOp]
        ELSE IF n = 1
        THEN IF P.TheStack = <<>> THEN [P |-> UndefinedParse(P), op |-> NoOp]
             ELSE IF e.Type # "OPERATION" \/ e.ty # "Array" \/ ~e.cons THEN rejected(popped)
             ELSE IF e.elem \in NumericTypes THEN [P |-> popped, op |-> FoldOp(fn, e.elem)]
             ELSE rejected(popped)
        ELSE IF n # 2
        THEN IF n < 0 \/ Len(P.TheStack) < n THEN [P |-> UndefinedParse(P), op |-> NoOp]
             ELSE rejected(P)
        ELSE IF Len(P.TheStack) < 2 THEN [P |-> UndefinedParse(P), op |-> NoOp]
        ELSE IF DetermineEffectiveType(first) # DetermineEffectiveType(second)
        THEN rejected(popped2)
        ELSE IF DetermineEffectiveType(first) \in NumericTypes
        THEN [P |-> popped2,
              op |-> ArithOp(fn, DetermineEffectiveType(first), IsArray(first), IsArray(second), 2)]
        ELSE rejected(popped2)

\* The body shared by CreateOperation_Add, _Subtract, _Multiply and _Divide:
\* the operation created and the parser state left behind. A parameter
\* count is an unsigned 32-bit number kept as its bit pattern read as a
\* signed one: -1 stands for 2^32 - 1.
CreateArithmeticOperation(P, fn) ==
    LET n == Back(P.PassedParameterCount)
        e == Back(P.TheStack)
        rejected(Q) == [P |-> ReportFatalError(Q), op |-> NoOp]
        popped == [P EXCEPT !.TheStack = Pop(@)]
        second == Back(P.TheStack)
        first == Back(Pop(P.TheStack))
        popped2 == [P EXCEPT !.TheStack = Pop(Pop(@))]
    IN  IF P.PassedParameterCount = <<>> THEN [P |-> UndefinedParse(P), op |-> NoOp]
        ELSE IF n = 1
        THEN IF P.TheStack = <<>> THEN [P |-> UndefinedParse(P), op |-> NoOp]
             ELSE IF e.Type # "OPERATION" \/ e.ty # "Array" \/ ~e.cons THEN rejected(popped)
             ELSE IF e.elem \in NumericTypes THEN [P |-> popped, op |-> FoldOp(fn, e.elem)]
             ELSE rejected(popped)
        ELSE IF n # 2
        THEN IF n < 0 \/ Len(P.TheStack) < n THEN [P |-> UndefinedParse(P), op |-> NoOp]
             ELSE rejected([P EXCEPT !.TheStack = SubSeq(@, 1, Len(@) - n)])
        ELSE IF Len(P.TheStack) < 2 THEN [P |-> UndefinedParse(P), op |-> NoOp]
        ELSE IF DetermineEffectiveType(first) # DetermineEffectiveType(second)
        THEN rejected(popped2)
        ELSE IF DetermineEffectiveType(first) \in NumericTypes
        THEN [P |-> popped2,
              op |-> ArithOp(fn, DetermineEffectiveType(first), IsArray(first), IsArray(second), 2)]
        ELSE rejected(popped2)

CreateOperation_Add(P) == CreateArithmeticOperation(P, "add")

CreateOperation_Subtract(P) == CreateArithmeticOperation(P, "subtract")

CreateOperation_Multiply(P) == CreateArithmeticOperation(P, "multiply")

CreateOperation_Divide(P) == CreateArithmeticOperation(P, "divide")

\* ParserState::CreateOperation for the arithmetic keywords
CreateOperation(P, opname) ==
    CASE opname = "add" -> CreateOperation_Add(P)
      [] opname = "subtract" -> CreateOperation_Subtract(P)
      [] opname = "multiply" -> CreateOperation_Multiply(P)
      [] opname = "divide" -> CreateOperation_Divide(P)
      [] OTHER -> [P |-> ParserFailure(P), op |-> NoOp]

\* ---------------------------------------------------------------------
\* Infix lowering (Parser State Machine/Infix.cpp).

\* enum OperatorPrecedence
OPREC_MIN == 0

OPREC_ASSIGNMENT == 1

OPREC_ADDITION == 8

OPREC_MULTIPLICATION == 9

OPREC_BOOLEAN == 10

OPREC_MAX == 14

\* The table autoinit::autoinit fills, for the operators modelled here.
InfixOperators ==
    [Add |-> [FunctionName |-> "add", Precedence |-> OPREC_ADDITION],
     Subtract |-> [FunctionName |-> "subtract", Precedence |-> OPREC_ADDITION],
     Multiply |-> [FunctionName |-> "multiply", Precedence |-> OPREC_MULTIPLICATION],
     Divide |-> [FunctionName |-> "divide", Precedence |-> OPREC_MULTIPLICATION],
     And |-> [FunctionName |-> "and", Precedence |-> OPREC_BOOLEAN],
     Or |-> [FunctionName |-> "or", Precedence |-> OPREC_BOOLEAN],
     Assign |-> [FunctionName |-> "assign", Precedence |-> OPREC_ASSIGNMENT]]

C6_FlatPrecedence(opname) ==
    IF opname = "Assign" THEN OPREC_ASSIGNMENT ELSE OPREC_ADDITION

GetInfixPrecedence(opname) == InfixOperators[opname].Precedence

LookupInfixAlias(opname) == InfixOperators[opname].FunctionName

\* The variables of the scope the expression is parsed in.
VariableTypes == [i |-> "Integer", r |-> "Real"]

\* ResetInfixTracking opening a level on the operator lists alone.
C38_PushesOperatorListOnly(P) ==
    [P EXCEPT !.InfixOperatorList = Append(@, <<>>)]

\* ResetInfixTracking
ResetInfixTracking(P) ==
    [P EXCEPT !.InfixOperandCount = Append(@, 0), !.InfixOperatorList = Append(@, <<>>)]

\* PushInfixOperator
PushInfixOperator(P, opname) ==
    IF P.InfixOperatorList = <<>> THEN P
    ELSE [P EXCEPT !.InfixOperatorList[Len(P.InfixOperatorList)] = Append(@, opname)]

\* RegisterInfixOperand
RegisterInfixOperand(P) ==
    IF P.InfixOperandCount = <<>> THEN P
    ELSE [P EXCEPT !.InfixOperandCount[Len(P.InfixOperandCount)] = @ + 1]

\* RegisterInfixOperandAsLValue
RegisterInfixOperandAsLValue(P, lvaluename) ==
    [RegisterInfixOperand(P) EXCEPT
        !.TheStack = Append(@, StackEntry("IDENTIFIER", lvaluename, VariableTypes[lvaluename])),
        !.InfixOperatorList = Append(@, <<"Assign">>),
        !.PassedParameterCount = Append(@, 0),
        !.InfixOperandCount = Append(@, 0)]

\* GetType of an operation a PushOperation wraps
TypeOfOp(o) == IF o.op = "NoOp" THEN "Null" ELSE o.ty

PushOperation(o) == [POp("PushOperation", TypeOfOp(o)) EXCEPT !.sub = <<o>>]

\* How many operations of the tail of a block make up its last operand
\* (GetNumOperations() - CountTailOps(1, scope), line 444): the operands
\* parsed here are single pushes.
TailOperandSize(ops) == IF ops = <<>> THEN 0 ELSE 1

\* InfixUnitRawOperations / InfixUnitCompound, flattened: the operations a
\* unit pushes and the operands it holds.
InfixUnit(ops, operands) == [PushOperations |-> ops, Operands |-> operands]

\* The partition with the unit of the first operand taking every operation
\* left in the block.
RECURSIVE C23_TakesEveryOperation(_, _, _)
C23_TakesEveryOperation(ops, stack, count) ==
    IF count = 0 THEN [ops |-> ops, stack |-> stack, units |-> <<>>, ub |-> FALSE]
    ELSE IF stack = <<>> THEN [ops |-> ops, stack |-> stack, units |-> <<>>, ub |-> TRUE]
    ELSE LET n == IF count = 1 THEN Len(ops) ELSE TailOperandSize(ops)
             unit == InfixUnit(SubSeq(ops, Len(ops) - n + 1, Len(ops)), <<Back(stack)>>)
             rest == C23_TakesEveryOperation(SubSeq(ops, 1, Len(ops) - n), Pop(stack), count - 1)
         IN  [rest EXCEPT !.units = Append(@, unit)]

\* Lines 441-476: one unit per operand, popped off the tail of the block and
\* of TheStack; the units come back in source order.
RECURSIVE PopUnits(_, _, _)
PopUnits(ops, stack, count) ==
    IF count = 0 THEN [ops |-> ops, stack |-> stack, units |-> <<>>, ub |-> FALSE]
    ELSE IF stack = <<>> THEN [ops |-> ops, stack |-> stack, units |-> <<>>, ub |-> TRUE]
    ELSE LET n == TailOperandSize(ops)
             unit == InfixUnit(SubSeq(ops, Len(ops) - n + 1, Len(ops)), <<Back(stack)>>)
             rest == PopUnits(SubSeq(ops, 1, Len(ops) - n), Pop(stack), count - 1)
         IN  [rest EXCEPT !.units = Append(@, unit)]

\* Lines 450-467: an array operand that does not construct the type of the
\* expression stops the lowering.
Bailout(units, expressiontype) ==
    \E k \in 1..Len(units) : \E j \in 1..Len(units[k].PushOperations) :
        LET o == units[k].PushOperations[j]
        IN  o.ty # expressiontype /\ o.ty = "Array"
            /\ (o.sub = <<>> \/ o.sub[1].op # "ConsArray" \/ o.sub[1].ty # expressiontype)

RemoveAt(q, k) == SubSeq(q, 1, k - 1) \o SubSeq(q, k + 1, Len(q))

\* The one value of a set of one: what it is computed from has then been
\* computed once.
Value(singleton) == CHOOSE v \in singleton : TRUE

\* Lines 512-523: the assignment operator takes the l-value off TheStack
\* and checks its type against the type of the expression.
InjectLValue(S, expressiontype) ==
    LET P == S.P
        name == Back(P.TheStack).name
        P1 == [P EXCEPT !.TheStack = Pop(@)]
    IN  IF P.TheStack = <<>> THEN [S EXCEPT !.P = UndefinedParse(P), !.stop = TRUE]
        \* GetVariableType of a name the scope holds no variable for
        ELSE IF name \notin DOMAIN VariableTypes
        THEN [S EXCEPT !.P = UndefinedParse(P1), !.stop = TRUE]
        ELSE IF VariableTypes[name] # expressiontype
        THEN [S EXCEPT !.P = ReportFatalError(P1), !.inject = name, !.ret = FALSE, !.stop = TRUE]
        ELSE [S EXCEPT !.P = P1, !.inject = name, !.ret = TRUE]

\* Lines 540-559: and / or become a compound operator owning the operand
\* operations of both units.
CompoundOperator(opname, expressiontype, ops) ==
    [op |-> (IF expressiontype = "Boolean" THEN "Logical" ELSE "Bitwise")
              \o (IF opname = "and" THEN "And" ELSE "Or"),
     ty |-> expressiontype, sub |-> ops]

\* Lines 526-589: the operator at position u of the unit list combines the
\* unit there with the next one.
CombineUnits(S, infixop, u, expressiontype) ==
    LET P == S.P
        first == S.units[u]
        second == S.units[u + 1]
        opname == LookupInfixAlias(infixop)
        discardoperations == opname \in {"and", "or"}
        top == Len(P.PassedParameterCount)
        saved == P.PassedParameterCount[top]
        P1 == [P EXCEPT !.PassedParameterCount[top] = 2,
                        !.TheStack = @ \o first.Operands \o second.Operands]
        created == CreateOperation(P1, opname)
        op == IF discardoperations
              THEN CompoundOperator(opname, expressiontype,
                                    first.PushOperations \o second.PushOperations)
              ELSE created.op
        P2 == IF discardoperations THEN P ELSE created.P
        newunit == InfixUnit((IF discardoperations THEN <<>>
                              ELSE first.PushOperations \o second.PushOperations)
                             \o <<PushOperation(op)>>,
                             second.Operands)
        P3 == [P2 EXCEPT !.PassedParameterCount[top] = saved - 1]
    IN  IF u + 1 > Len(S.units) \/ P.PassedParameterCount = <<>>
        THEN [S EXCEPT !.P = UndefinedParse(P), !.stop = TRUE]
        ELSE IF discardoperations /\ expressiontype \notin {"Integer", "Integer16", "Boolean"}
        THEN [S EXCEPT !.P = ParserFailure([P EXCEPT !.PassedParameterCount[top] = 2]),
                       !.stop = TRUE]
        ELSE IF ~Alive(P2) THEN [S EXCEPT !.P = P2, !.stop = TRUE]
        ELSE [S EXCEPT !.P = P3,
                       !.units = SubSeq(@, 1, u - 1) \o <<newunit>> \o SubSeq(@, u + 2, Len(@))]

\* The scan taking the last operator of the level first.
RECURSIVE C26_ScansRightToLeft(_, _, _, _, _)
C26_ScansRightToLeft(S, precedence, k, u, expressiontype) ==
    LET matches == {j \in k..Len(S.list) : GetInfixPrecedence(S.list[j]) = precedence}
        last == CHOOSE j \in matches : \A i \in matches : i <= j
        ulast == u + Cardinality({i \in k..(last - 1) : S.list[i] # "Assign"})
    IN  IF S.stop \/ matches = {} THEN S
        ELSE Value({IF S1.stop THEN S1
                    ELSE C26_ScansRightToLeft([S1 EXCEPT !.list = RemoveAt(@, last)],
                                              precedence, k, u, expressiontype) :
                    S1 \in {IF S.list[last] = "Assign" THEN InjectLValue(S, expressiontype)
                            ELSE CombineUnits(S, S.list[last], ulast, expressiontype)}})

\* Lines 507-600: one scan of the operator list at one precedence level; k
\* is the position in the list, u the position in the unit list.
RECURSIVE ScanOperators(_, _, _, _, _)
ScanOperators(S, precedence, k, u, expressiontype) ==
    IF S.stop \/ k > Len(S.list) THEN S
    ELSE IF GetInfixPrecedence(S.list[k]) = precedence
    THEN Value({IF S1.stop THEN S1
                ELSE ScanOperators([S1 EXCEPT !.list = RemoveAt(@, k)],
                                   precedence, k, u, expressiontype) :
                S1 \in {IF S.list[k] = "Assign" THEN InjectLValue(S, expressiontype)
                        ELSE CombineUnits(S, S.list[k], u, expressiontype)}})
    ELSE ScanOperators(S, precedence, k + 1,
                       IF S.list[k] # "Assign" THEN u + 1 ELSE u, expressiontype)

\* Line 505: from OPREC_MAX - 1 down to OPREC_MIN + 1
RECURSIVE ScanPrecedences(_, _, _)
ScanPrecedences(S, precedence, expressiontype) ==
    IF S.stop \/ precedence <= OPREC_MIN THEN S
    ELSE Value({ScanPrecedences(S1, precedence - 1, expressiontype) :
                S1 \in {ScanOperators(S, precedence, 1, 1, expressiontype)}})

RECURSIVE Contents(_)
Contents(units) ==
    IF units = <<>> THEN <<>> ELSE Head(units).PushOperations \o Contents(Tail(units))

\* Lines 478-498
BailOut(P) ==
    LET assigns == Cardinality({<<j, k>> \in UNION {{<<j, k>> : k \in 1..Len(P.InfixOperatorList[j])} :
                                   j \in 1..Len(P.InfixOperatorList)} :
                                   P.InfixOperatorList[j][k] = "Assign"})
    IN  IF assigns > Len(P.TheStack) THEN UndefinedParse(P)
        ELSE [ReportFatalError(P) EXCEPT
                !.TheStack = SubSeq(@, 1, Len(@) - assigns),
                !.InfixOperatorList = <<>>, !.InfixOperandCount = <<>>]

\* The further target read back instead of the target assigned before it.
C25_ReadsOwnTarget(P) ==
    LET b == Back(P.Blocks).TheBlock
        ops == P.heap[b].ops
        lvaluename == Back(P.TheStack).name
        getvalop == [op |-> "GetVariableValue", ty |-> VariableTypes[lvaluename],
                     id |-> lvaluename]
        P1 == AddOperationToCurrentBlock([P EXCEPT !.TheStack = Pop(@)], PushOperation(getvalop))
        P2 == AddOperationToCurrentBlock(P1, [POp("AssignValue", "Null") EXCEPT !.id = lvaluename])
    IN  IF P.TheStack = <<>> THEN [P |-> UndefinedParse(P), ret |-> FALSE]
        ELSE IF Back(P.TheStack).Type # "IDENTIFIER"
        THEN [P |-> ReportFatalError(P), ret |-> FALSE]
        ELSE IF P.Blocks = <<>> \/ ops = <<>> \/ Back(ops).op # "AssignValue"
        THEN [P |-> UndefinedParse(P), ret |-> FALSE]
        ELSE [P |-> [P2 EXCEPT !.InfixOperandCount = Pop(@), !.InfixOperatorList = Pop(@)],
              ret |-> TRUE]

\* The chained-assignment branch returning true with both infix stacks
\* left as they were.
C36_ChainsWithoutPopping(P) ==
    LET b == Back(P.Blocks).TheBlock
        ops == P.heap[b].ops
        lvaluename == Back(P.TheStack).name
        previouslvaluename == Back(ops).id
        getvalop == [op |-> "GetVariableValue", ty |-> VariableTypes[previouslvaluename],
                     id |-> previouslvaluename]
        P1 == AddOperationToCurrentBlock([P EXCEPT !.TheStack = Pop(@)], PushOperation(getvalop))
        P2 == AddOperationToCurrentBlock(P1, [POp("AssignValue", "Null") EXCEPT !.id = lvaluename])
    IN  IF P.TheStack = <<>> THEN [P |-> UndefinedParse(P), ret |-> FALSE]
        ELSE IF Back(P.TheStack).Type # "IDENTIFIER"
        THEN [P |-> ReportFatalError(P), ret |-> FALSE]
        ELSE IF P.Blocks = <<>> \/ ops = <<>> \/ Back(ops).op # "AssignValue"
        THEN [P |-> UndefinedParse(P), ret |-> FALSE]
        ELSE [P |-> P2, ret |-> TRUE]

\* Lines 371-392: a further target of a chained assignment
ChainAssignment(P) ==
    LET b == Back(P.Blocks).TheBlock
        ops == P.heap[b].ops
        lvaluename == Back(P.TheStack).name
        previouslvaluename == Back(ops).id
        getvalop == [op |-> "GetVariableValue", ty |-> VariableTypes[previouslvaluename],
                     id |-> previouslvaluename]
        P1 == AddOperationToCurrentBlock([P EXCEPT !.TheStack = Pop(@)], PushOperation(getvalop))
        P2 == AddOperationToCurrentBlock(P1, [POp("AssignValue", "Null") EXCEPT !.id = lvaluename])
    IN  IF P.TheStack = <<>> THEN [P |-> UndefinedParse(P), ret |-> FALSE]
        ELSE IF Back(P.TheStack).Type # "IDENTIFIER"
        THEN [P |-> ReportFatalError(P), ret |-> FALSE]
        ELSE IF P.Blocks = <<>> \/ ops = <<>> \/ Back(ops).op # "AssignValue"
        THEN [P |-> UndefinedParse(P), ret |-> FALSE]
        ELSE [P |-> [P2 EXCEPT !.InfixOperandCount = Pop(@), !.InfixOperatorList = Pop(@)],
              ret |-> TRUE]

\* Lines 395-630: the units are taken off the block, combined by precedence
\* and pushed back.
LowerExpression(P) ==
    LET b == Back(P.Blocks).TheBlock
        ops == P.heap[b].ops
        expressiontype == Back(ops).ty
        popped == Value({PopUnits(ops, P.TheStack, Back(P.InfixOperandCount))})
        P1 == [P EXCEPT !.heap[b].ops = popped.ops, !.TheStack = popped.stack]
        S == Value({ScanPrecedences(S0, OPREC_MAX - 1, expressiontype) :
                    S0 \in {[P |-> P1, list |-> Back(P.InfixOperatorList),
                             units |-> popped.units, inject |-> "", ret |-> FALSE,
                             stop |-> FALSE]}})
        P2 == [S.P EXCEPT !.InfixOperatorList[Len(P.InfixOperatorList)] = S.list]
        P3 == [P2 EXCEPT !.heap[b].ops = @ \o Contents(S.units)]
        tail == Back(P3.heap[b].ops)
        P4 == IF S.inject # ""
              THEN AddOperationToCurrentBlock(P3, [POp("AssignValue", "Null") EXCEPT !.id = S.inject])
              ELSE [P3 EXCEPT !.TheStack = Append(@, StackEntry("OPERATION", "", tail.ty))]
    IN  IF P.Blocks = <<>> \/ ops = <<>> THEN [P |-> UndefinedParse(P), ret |-> FALSE]
        ELSE IF popped.ub THEN [P |-> UndefinedParse(P), ret |-> FALSE]
        ELSE IF Bailout(popped.units, expressiontype) THEN [P |-> BailOut(P1), ret |-> FALSE]
        ELSE IF S.stop THEN [P |-> P2, ret |-> FALSE]
        ELSE IF S.inject = "" /\ P3.heap[b].ops = <<>> THEN [P |-> UndefinedParse(P3), ret |-> FALSE]
        ELSE [P |-> [P4 EXCEPT !.InfixOperandCount = Pop(@), !.InfixOperatorList = Pop(@)],
              ret |-> S.ret]

\* FinalizeInfixExpression(isfirstrun, scope), lines 359-631
FinalizeInfixExpression(P, isfirstrun) ==
    LET list == Back(P.InfixOperatorList)
        count == Back(P.InfixOperandCount)
    IN  IF P.InfixOperatorList = <<>> \/ P.InfixOperandCount = <<>> THEN [P |-> P, ret |-> FALSE]
        ELSE IF list = <<>> \/ (count = 1 /\ Back(list) # "Assign")
        THEN [P |-> [P EXCEPT !.InfixOperatorList = Pop(@), !.InfixOperandCount = Pop(@)],
              ret |-> FALSE]
        ELSE IF count = 1 /\ Back(list) = "Assign" /\ ~isfirstrun THEN ChainAssignment(P)
        ELSE LowerExpression(P)

\* TerminateInfixExpression, lines 341-351
RECURSIVE RunFinalize(_, _)
RunFinalize(P, firstrun) ==
    Value({IF r.ret /\ Alive(r.P) THEN RunFinalize(r.P, FALSE) ELSE r.P :
           r \in {FinalizeInfixExpression(P, firstrun)}})

TerminateInfixExpression(P) == RunFinalize(P, TRUE)

\* ---------------------------------------------------------------------
\* One infix expression, event by event.

\* Operands of an expression.
MaxOperands == 3

\* Targets of a chained assignment.
MaxTargets == 2

OperandTypes == {"Integer", "Real", "Boolean"}

BinaryOperators == DOMAIN InfixOperators \ {"Assign"}

\* The operands of a phrase: a literal of a type, or an array constructed
\* of Integer elements.
Operands ==
    {[ty |-> ty, elem |-> "Null"] : ty \in OperandTypes}
    \cup {[ty |-> "Array", elem |-> "Integer"]}

\* An operand: its push at the tail of the current block, its entry on
\* TheStack, one more parameter counted, and RegisterInfixOperand.
OperandPush(k, operand) ==
    [POp("PushOperation", operand.ty) EXCEPT
        !.id = ToString(k),
        !.sub = IF operand.ty = "Array" THEN <<[op |-> "ConsArray", ty |-> operand.elem]>>
                ELSE <<>>]

PushOperand(P, operand) ==
    LET k == Len(P.phrase.operands) + 1
        top == Len(P.PassedParameterCount)
        P1 == AddOperationToCurrentBlock(P, OperandPush(k, operand))
        entry == IF operand.ty = "Array" THEN ConsArrayEntry(operand.elem)
                 ELSE StackEntry("LITERAL", "", operand.ty)
    IN  RegisterInfixOperand(
            [P1 EXCEPT !.TheStack = Append(@, entry),
                       !.PassedParameterCount[top] = @ + 1,
                       !.phrase.operands = Append(@, operand)])

\* Operations a statement before the phrase has left in the block.
MaxEarlier == 1

\* An earlier statement of the body: its operation goes to the tail of the
\* current block.
InfixEarlierStatement ==
    /\ Alive(ps) /\ ps.ph = "stmt" /\ Len(ps.phrase.earlier) < MaxEarlier
    /\ LET o == [POp("PushOperation", "Integer") EXCEPT !.id = "earlier"]
       IN  ps' = [AddOperationToCurrentBlock(ps, o) EXCEPT !.phrase.earlier = Append(@, o)]
    /\ UNCHANGED <<ld, rt>>

InfixResetTracking ==
    /\ Alive(ps) /\ ps.ph = "stmt"
    /\ ps' = [ResetInfixTracking(ps) EXCEPT !.ph = "operand"]
    /\ UNCHANGED <<ld, rt>>

InfixLValue ==
    /\ Alive(ps) /\ ps.ph \in {"stmt", "target"} /\ Len(ps.phrase.targets) < MaxTargets
    /\ \E name \in DOMAIN VariableTypes :
         ps' = [RegisterInfixOperandAsLValue(ps, name) EXCEPT
                  !.ph = "target", !.phrase.targets = Append(@, name)]
    /\ UNCHANGED <<ld, rt>>

InfixOperand ==
    /\ Alive(ps) /\ ps.ph \in {"operand", "target"}
    /\ Len(ps.phrase.operands) < MaxOperands
    /\ \E operand \in Operands : ps' = [PushOperand(ps, operand) EXCEPT !.ph = "operator"]
    /\ UNCHANGED <<ld, rt>>

InfixOperator ==
    /\ Alive(ps) /\ ps.ph = "operator" /\ Len(ps.phrase.operands) < MaxOperands
    /\ \E o \in BinaryOperators :
         ps' = [PushInfixOperator(ps, o) EXCEPT
                  !.ph = "operand", !.phrase.operators = Append(@, o)]
    /\ UNCHANGED <<ld, rt>>

InfixTerminate ==
    /\ Alive(ps) /\ ps.ph = "operator"
    /\ ps' = [TerminateInfixExpression(ps) EXCEPT !.ph = "done"]
    /\ UNCHANGED <<ld, rt>>

\* Inside a function body, with the parameter count of the statement open.
InitInfix ==
    /\ ps = [NewParserState EXCEPT !.PassedParameterCount = <<0>>]
    /\ ld = 0 /\ rt = 0

NextInfix ==
    \/ InfixEarlierStatement
    \/ InfixResetTracking
    \/ InfixLValue
    \/ InfixOperand
    \/ InfixOperator
    \/ InfixTerminate

SpecInfix == InitInfix /\ [][NextInfix]_vars

\* The expression has been lowered and no fatal error was reported.
Lowered == ps.ph = "done" /\ Alive(ps) /\ ~ps.ParseFailed

\* The operators of the phrase in source order, and what the phrase has
\* left in the function body after lowering.
SourceOperators == [k \in 1..Len(ps.phrase.targets) |-> "Assign"] \o ps.phrase.operators

Body == SubSeq(ps.heap[1].ops, Len(ps.phrase.earlier) + 1, Len(ps.heap[1].ops))

\* a o1 b o2 c with prec(o1) < prec(o2) in the table
LowToHighPhrase ==
    /\ Len(SourceOperators) = 2
    /\ Len(ps.phrase.targets) + Len(ps.phrase.operands) = 3
    /\ InfixOperators[SourceOperators[1]].Precedence
         < InfixOperators[SourceOperators[2]].Precedence

\* The operation an operator of the table stands for is the one pushed.
AppliesOperator(pushop, infixop) ==
    /\ pushop.op = "PushOperation" /\ Len(pushop.sub) = 1
    /\ \/ pushop.sub[1].op = "Arithmetic"
          /\ pushop.sub[1].fn = InfixOperators[infixop].FunctionName
          /\ pushop.sub[1].numParams = 2
       \/ infixop = "And" /\ pushop.sub[1].op \in {"BitwiseAnd", "LogicalAnd"}
       \/ infixop = "Or" /\ pushop.sub[1].op \in {"BitwiseOr", "LogicalOr"}

C8_AssignedTypeMatchesTarget ==
    Lowered =>
        \A k \in 1..Len(Body) :
            Body[k].op = "AssignValue" =>
                k > 1 /\ Body[k - 1].ty = VariableTypes[Body[k].id]

\* The step that lowers the phrase.
Lowers == ps.ph = "operator" /\ ps'.ph = "done" /\ Alive(ps')

\* The operations of a block with every compound operation replaced by the
\* operations it owns.
RECURSIVE Leaves(_)
Leaves(ops) ==
    IF ops = <<>> THEN <<>>
    ELSE LET o == Head(ops)
         IN  (IF o.sub # <<>> /\ "sub" \in DOMAIN o.sub[1] THEN Leaves(o.sub[1].sub)
              ELSE <<o>>) \o Leaves(Tail(ops))

IsOperandPush(o) == o.op = "PushOperation" /\ o.id # ""

\* The pushes of the operands of the phrase, in source order.
PhraseOperands(P) == [k \in 1..Len(P.phrase.operands) |-> OperandPush(k, P.phrase.operands[k])]

ExpressionType(P) == Back(P.phrase.operands).ty

\* An operand whose type is not the type of the expression and that is not
\* an array constructed of elements of that type.
Disagrees(operand, expressiontype) ==
    /\ operand.ty # expressiontype
    /\ ~(operand.ty = "Array" /\ operand.elem = expressiontype)

\* The phrase was abandoned: its operations are off the block and the
\* operand counts are cleared.
Abandoned(P) == Body = <<>> /\ P.InfixOperandCount = <<>>

\* C24: when a phrase of two operands or more is lowered and an operand's
\* type differs from the type of the expression's tail operation (other
\* than an array constructor of the expression type), a fatal error is
\* reported and the phrase is abandoned.
C24_DisagreeingOperandAbandonsPhrase ==
    [][(/\ Lowers
        /\ Len(ps.phrase.operands) >= 2
        /\ \E k \in 1..Len(ps.phrase.operands) :
              Disagrees(ps.phrase.operands[k], ExpressionType(ps)))
       => ps'.ParseFailed /\ Abandoned(ps)']_vars

\* What follows the operations of expr for the targets of a chained
\* assignment, leftmost target first: the AssignValue of the last target,
\* then for each further target to the left a push of the value of the
\* variable assigned before it and its own AssignValue.
RECURSIVE ExpectedAssignments(_)
ExpectedAssignments(targets) ==
    IF Len(targets) = 1 THEN <<[POp("AssignValue", "Null") EXCEPT !.id = targets[1]]>>
    ELSE ExpectedAssignments(Tail(targets))
         \o <<PushOperation([op |-> "GetVariableValue", ty |-> VariableTypes[targets[2]],
                              id |-> targets[2]]),
               [POp("AssignValue", "Null") EXCEPT !.id = targets[1]]>>

\* C25: a chained assignment a = b = expr lowered without a fatal error
\* leaves the operations of expr, then AssignValue(b), then a push of
\* GetVariableValue(b), then AssignValue(a); each further target to the
\* left adds a read of the variable assigned before it and its own
\* AssignValue.
C25_ChainedAssignmentShape ==
    (Lowered /\ Len(ps.phrase.targets) >= 2) =>
        LET expected == ExpectedAssignments(ps.phrase.targets)
            n == Len(Body) - Len(expected)
        IN  /\ n >= 1
            /\ SubSeq(Body, n + 1, Len(Body)) = expected
            /\ \A k \in 1..n : Body[k].op = "PushOperation"
            /\ SelectSeq(Leaves(SubSeq(Body, 1, n)), IsOperandPush) = PhraseOperands(ps)

\* i = r = expr or r = i = expr over two operands or more, lowered.
C25_ChainedAssignmentLowered ==
    /\ Lowered /\ Len(ps.phrase.targets) = 2
    /\ ps.phrase.targets[1] # ps.phrase.targets[2]
    /\ Len(ps.phrase.operands) >= 2

\* a o1 b o2 c with prec(o1) = prec(o2) in the table
EqualPrecedencePhrase ==
    /\ ps.phrase.targets = <<>>
    /\ Len(ps.phrase.operands) = 3 /\ Len(ps.phrase.operators) = 2
    /\ InfixOperators[ps.phrase.operators[1]].Precedence
         = InfixOperators[ps.phrase.operators[2]].Precedence

\* C26: a o1 b o2 c with prec(o1) = prec(o2) is lowered left to right: o1
\* is applied to (a, b) and o2 to (the result of o1, c). Between arithmetic
\* operators the block holds the pushes of a and b, the push of o1, the push
\* of c and the push of o2; between and / or the compound operation of o2
\* owns the push of the compound operation of o1, which owns the pushes of a
\* and b, and then the push of c.
C26_EqualPrecedenceLeftToRight ==
    (Lowered /\ EqualPrecedencePhrase) =>
        LET o1 == ps.phrase.operators[1]
            o2 == ps.phrase.operators[2]
            a == OperandPush(1, ps.phrase.operands[1])
            b == OperandPush(2, ps.phrase.operands[2])
            c == OperandPush(3, ps.phrase.operands[3])
        IN  IF o1 \in {"And", "Or"}
            THEN /\ Len(Body) = 1 /\ AppliesOperator(Body[1], o2)
                 /\ Len(Body[1].sub[1].sub) = 2
                 /\ AppliesOperator(Body[1].sub[1].sub[1], o1)
                 /\ Body[1].sub[1].sub[1].sub[1].sub = <<a, b>>
                 /\ Body[1].sub[1].sub[2] = c
            ELSE /\ Len(Body) = 5
                 /\ Body[1] = a /\ Body[2] = b /\ AppliesOperator(Body[3], o1)
                 /\ Body[4] = c /\ AppliesOperator(Body[5], o2)

\* Two different operators of one precedence level over three operands,
\* lowered.
C26_EqualPrecedenceLowered ==
    /\ Lowered /\ EqualPrecedencePhrase
    /\ ps.phrase.operators[1] # ps.phrase.operators[2]

\* ---------------------------------------------------------------------
\* Build, write, load: one arithmetic call in a function body.

\* The opcode the writer emits for each arithmetic class.
ArithmeticOpcode ==
    [add |-> [Integer |-> "AddIntegers", Integer16 |-> "AddInteger16s", Real |-> "AddReals"],
     subtract |-> [Integer |-> "SubtractIntegers", Integer16 |-> "SubtractInteger16s",
                   Real |-> "SubReals"],
     multiply |-> [Integer |-> "MultiplyIntegers", Integer16 |-> "MultiplyInteger16s",
                   Real |-> "MultiplyReals"],
     divide |-> [Integer |-> "DivideIntegers", Integer16 |-> "DivideInteger16s",
                 Real |-> "DivideReals"]]

\* SerializationTraverser::WriteArithmeticOp: the token of the class, the two
\* array flags and the parameter count.
WriteArithmeticOp(o) ==
    <<Tok(ArithmeticOpcode[o.fn][o.ty],
          (IF o.first THEN 2 ELSE 0) + (IF o.second THEN 1 ELSE 0), o.numParams)>>

\* One operation of a block as the writer encodes it.
WriteOp(o) ==
    IF o.op = "PushOperation" THEN <<T0("PushOperation")>> \o WriteArithmeticOp(o.sub[1])
    ELSE WriteArithmeticOp(o)

RECURSIVE WriteBlock(_)
WriteBlock(ops) == IF ops = <<>> THEN <<>> ELSE WriteOp(Head(ops)) \o WriteBlock(Tail(ops))

\* The program written: the root scope with the one function, its
\* parameter, return and local scopes and its code block; no global block.
WriteProgram(P) ==
    Cat3(Header(0),
         ScopeToks(1, 0, <<>>, 1,
                   UserFunc(1, LeafScope(2, 0), LeafScope(3, 0), LeafScope(4, 1),
                            WriteBlock(P.heap[1].ops)),
                   0, <<>>),
         Trailer(<<T0("Null")>>))

\* What a traversal reports of an operation.
Payload(o) ==
    IF o.op = "Arithmetic" THEN <<o.op, o.fn, o.ty, o.first, o.second, o.numParams>>
    ELSE <<o.op>>

TraversalPayload(o) ==
    IF o.op = "PushOperation" THEN <<o.op, Payload(o.sub[1])>> ELSE Payload(o)

Payloads(ops) == [k \in 1..Len(ops) |-> TraversalPayload(ops[k])]

\* What the parameters of an arithmetic call leave on TheStack.
ArithmeticEntries ==
    {[StackEntry("LITERAL", "", ty) EXCEPT !.isArray = arr] :
        ty \in NumericTypes \cup {"Boolean"}, arr \in BOOLEAN}
    \cup {ConsArrayEntry(elem) : elem \in NumericTypes \cup {"Boolean"}}

\* The parser inside a function body after the parameters of a call.
AfterParameters ==
    {[NewParserState EXCEPT !.TheStack = @ \o params,
                            !.PassedParameterCount = <<Len(params)>>] :
        params \in UNION {[1..n -> ArithmeticEntries] : n \in 1..2}}

\* No load has begun.
Unloaded == [NewLoader(<<>>) EXCEPT !.pc = "unwritten"]

\* add(...), subtract(...), multiply(...) or divide(...): the operation is
\* created and pushed onto the current block.
BuildArithmetic ==
    /\ Alive(ps) /\ ps.ph = "stmt"
    /\ \E fn \in ArithFunctions :
         LET r == CreateOperation(ps, fn)
         IN  ps' = [AddOperationToCurrentBlock(r.P, PushOperation(r.op)) EXCEPT
                      !.built = r.op, !.ph = "built"]
    /\ UNCHANGED <<ld, rt>>

\* The program built without a fatal error is written and handed to a loader.
WriteAndLoad ==
    /\ Alive(ps) /\ ps.ph = "built" /\ ~ps.ParseFailed
    /\ rt' = WriteProgram(ps)
    /\ ld' = NewLoader(rt')
    /\ ps' = [ps EXCEPT !.ph = "written"]

InitRoundTrip == ps \in AfterParameters /\ ld = Unloaded /\ rt = <<>>

NextRoundTrip == BuildArithmetic \/ WriteAndLoad \/ NextLoader

SpecRoundTrip == InitRoundTrip /\ [][NextRoundTrip]_vars

\* The operations of the function body the loader built.
LoadedBody == ld.blocks[ld.funcs[1].body].ops

\* C1: writing the built program and loading it back yields the same
\* operation sequence in the function's block: every arithmetic variant the
\* builder emits is accepted by the loader and decoded to the same class
\* with the same (firstIsArray, secondIsArray, numParams).
C1_LoadOfWriteIsIdentity ==
    (ps.ph = "written" /\ ~Running(ld)) =>
        /\ ld.pc \in {"done", "destroyed"}
        /\ Payloads(LoadedBody) = Payloads(ps.heap[1].ops)

\* ---------------------------------------------------------------------
\* Tasks and threads: built, written, loaded.

\* How many task or thread blocks a function body holds.
MaxForks == 2

\* task(name) and thread(name, pool): the name expressions leave their
\* entries on TheStack and the block that follows is a task or thread body.
RegisterFork(P, kind, names) ==
    [P EXCEPT !.TheStack = @ \o [k \in 1..Len(names) |-> StackEntry("LITERAL", "", names[k])],
              !.ExpectedBlockTypes = Append(@, IF kind = "task" THEN "TASK" ELSE "THREAD")]

\* task(...) or thread(...)
FlowRegisterFork ==
    /\ Building /\ ps.ph = "stmt" /\ Depth < MaxDepth /\ ps.used.fork < MaxForks
    /\ \E kind \in {"task", "thread"} :
         \E names \in [1..(IF kind = "task" THEN 1 ELSE 2) -> {"String", "Integer"}] :
            ps' = [RegisterFork(ps, kind, names) EXCEPT
                     !.ph = "open", !.pending = kind, !.used.fork = @ + 1,
                     !.marks = Append(@, Mark(ps))]
    /\ UNCHANGED <<ld, rt>>

\* The id the writer gives a scope of the built program: the global scope
\* is 1, the function's parameter and return scopes 2 and 3.
ScopeId(s) == IF s <= 1 THEN s ELSE s + 2

\* The parent ids a stream can record for the scope of a task or thread
\* body: none, the global scope, the function's local scope.
RecordedParents == {0, ScopeId(GlobalScope), ScopeId(2)}

\* The operations of a block as written: a task, thread or free block is its
\* opcode, then its scope and its code between BeginBlock and EndBlock.
RECURSIVE WriteForkBlock(_, _, _)
WriteForkOp(P, o, recorded) ==
    LET sc == P.heap[o.blk].scope
        fork == o.op \in {"ForkTask", "ForkThread"}
        scope == LeafScope(ScopeId(sc),
                           IF fork THEN recorded ELSE ScopeId(P.scopes[sc].parent))
        code == WriteForkBlock(P, P.heap[o.blk].ops, recorded)
    IN  IF fork THEN BlockOp(o.op, scope, code) ELSE BlockToks(scope, code)

WriteForkBlock(P, ops, recorded) ==
    IF ops = <<>> THEN <<>>
    ELSE WriteForkOp(P, Head(ops), recorded) \o WriteForkBlock(P, Tail(ops), recorded)

WriteForkProgram(P, recorded) ==
    Cat3(Header(0),
         ScopeToks(1, 0, <<>>, 1,
                   UserFunc(1, LeafScope(2, 0), LeafScope(3, 0), LeafScope(ScopeId(2), 1),
                            WriteForkBlock(P, P.heap[P.codeBlock].ops, recorded)),
                   0, <<>>),
         Trailer(<<T0("Null")>>))

\* The function built without a fatal error is written and handed to a loader.
WriteForksAndLoad ==
    /\ Alive(ps) /\ ps.ph = "done" /\ ~ps.ParseFailed /\ ps.codeBlock # 0
    /\ \E recorded \in RecordedParents : rt' = WriteForkProgram(ps, recorded)
    /\ ld' = NewLoader(rt')
    /\ ps' = [ps EXCEPT !.ph = "written"]

InitFork == ps = NewParserState /\ ld = Unloaded /\ rt = <<>>

NextFork ==
    \/ FlowRegisterFork
    \/ FlowEnterBlock
    \/ FlowEnterFreeBlock
    \/ FlowExitBlock
    \/ WriteForksAndLoad
    \/ NextLoader

SpecFork == InitFork /\ [][NextFork]_vars

\* The task and thread bodies of the program being built: those still open
\* and those already owned by a ForkTask or ForkThread.
BuiltForkBodies ==
    {ps.Blocks[k].TheBlock : k \in {j \in 1..Len(ps.Blocks) :
                                      ps.Blocks[j].Type \in {"TASK", "THREAD"}}}
    \cup {ps.heap[bi[1]].ops[bi[2]].blk : bi \in OpsNamed(ps, {"ForkTask", "ForkThread"})}

\* The task and thread bodies of the program the loader has built so far.
LoadedForkBodies ==
    UNION {{ld.blocks[b].ops[i].blks[1] :
               i \in {j \in 1..Len(ld.blocks[b].ops) :
                        ld.blocks[b].ops[j].op \in {"ForkTask", "ForkThread"}}} :
           b \in 1..Len(ld.blocks)}

\* C11: the scope bound to the body block of every task and thread has the
\* global scope as its parent, in the program the builder builds and in the
\* program the loader reconstructs, whatever parent id the stream records
\* for that scope.
C11_ForkScopesHangOffGlobal ==
    /\ \A b \in BuiltForkBodies : ps.scopes[ps.heap[b].scope].parent = GlobalScope
    /\ \A b \in LoadedForkBodies : ld.scopes[ld.blocks[b].scope].parent = GlobalScope

\* A task or thread built inside a free block, written with the function's
\* local scope recorded as the parent of its scope, and loaded.
C11_NestedForkLoaded ==
    /\ ld.pc = "done"
    /\ LoadedForkBodies # {}
    /\ \E bi \in OpsNamed(ps, {"ForkTask", "ForkThread"}) :
          /\ bi[1] # ps.codeBlock
          /\ \E i \in 1..Len(rt) :
                rt[i] = Tok("Scope", ScopeId(ps.heap[ps.heap[bi[1]].ops[bi[2]].blk].scope),
                            ScopeId(2))

\* The instruction bytes GenerateOpFromByteCode has a branch for.
KnownOpcodes ==
    {"PushOperation", "Invoke", "TypeCast", "BeginBlock", "If", "AcceptMessage"}
    \cup DOMAIN LoaderArithmetic \cup SimpleOpcodes \cup BlockOpcodes

\* The loader is about to read the instruction of an operation: the next
\* one of a code block, or the operand of a push.
OperationExpected ==
    /\ ld.pc \in {"LoadScope", "LoadGlobalInitBlock"} /\ ld.frames # <<>>
    /\ \/ Top(ld).k = "block" /\ NextTok(ld).t # "EndBlock"
       \/ Top(ld).k = "push"

MaxArguments == 4

\* What an argument leaves on TheStack: a variable or a literal.
ArgumentEntries ==
    {StackEntry("IDENTIFIER", "i", "Integer"), StackEntry("LITERAL", "", "Integer"),
     StackEntry("LITERAL", "", "Real"), StackEntry("IDENTIFIER", "s", "String")}

\* parallelfor(
ParallelForRegisterControl ==
    /\ Building /\ ps.ph = "stmt" /\ Depth < MaxDepth /\ ps.used.loop < MaxLoops
    /\ ps' = [RegisterControl(ps, "parallelfor") EXCEPT
                !.PassedParameterCount = Append(@, 0),
                !.ph = "args", !.pending = "parallelfor", !.used.loop = @ + 1,
                !.phrase.operands = <<>>, !.marks = Append(@, Mark(ps))]
    /\ UNCHANGED <<ld, rt>>

\* one argument of the parallelfor
ParallelForArgument ==
    /\ Building /\ ps.ph = "args" /\ Back(ps.PassedParameterCount) < MaxArguments
    /\ \E e \in ArgumentEntries :
         ps' = [ps EXCEPT !.TheStack = Append(@, e),
                          !.PassedParameterCount[Len(ps.PassedParameterCount)] = @ + 1,
                          !.phrase.operands = Append(@, e.ty)]
    /\ UNCHANGED <<ld, rt>>

\* ) of parallelfor
ParallelForEnd ==
    /\ Building /\ ps.ph = "args"
    /\ ps' = [RegisterEndOfParallelFor(ps) EXCEPT !.ph = "open"]
    /\ UNCHANGED <<ld, rt>>

InitParallelFor == ps = NewParserState /\ ld = Unloaded /\ rt = <<>>

NextParallelFor ==
    \/ ParallelForRegisterControl
    \/ ParallelForArgument
    \/ ParallelForEnd
    \/ FlowEnterBlock
    \/ FlowExitBlock

SpecParallelFor == InitParallelFor /\ [][NextParallelFor]_vars

\* The block of a parallelfor with four arguments is being closed and one of
\* the lower bound, the upper bound and the thread count is not an Integer.
ClosesParallelForWithBadBound ==
    /\ Alive(ps) /\ ps.Blocks # <<>> /\ Back(ps.Blocks).Type = "PARALLELFOR"
    /\ Len(ps'.Blocks) < Len(ps.Blocks)
    /\ Len(ps.phrase.operands) = 4 /\ Len(ps.TheStack) >= 4
    /\ \E k \in 1..3 : ps.TheStack[Len(ps.TheStack) - k + 1].ty # "Integer"

\* C13: when the lower bound, the upper bound or the thread count of a
\* parallelfor is not of Integer type the builder reports a fatal error,
\* emits a NoOp, and the build continues.
C13_BadBoundIsSoftFailure ==
    [][ClosesParallelForWithBadBound =>
          /\ Alive(ps') /\ ps'.ParseFailed
          /\ ps'.Blocks # <<>>
          /\ LET ops == ps'.heap[Back(ps'.Blocks).TheBlock].ops
             IN  ops # <<>> /\ ops[Len(ops)].op = "NoOp"]_vars

\* ---------------------------------------------------------------------
\* Compound assignment, increment and decrement.

\* The variables in scope and their declared types.
DeclaredTypes == VariableTypes @@ [s |-> "String", b |-> "Boolean"]

IsNumeric(ty) == ty \in NumericTypes

OpAssignFunctions ==
    [AddAssign |-> "add", SubtractAssign |-> "subtract", MultiplyAssign |-> "multiply",
     DivideAssign |-> "divide"]

\* Block::ReverseTailOperations(2, scope): the last two operands of the
\* block change places.
ReverseTailOperations(P) ==
    LET b == Back(P.Blocks).TheBlock
        ops == P.heap[b].ops
        n == Len(ops)
    IN  IF P.Blocks = <<>> \/ n < 2 THEN UndefinedParse(P)
        ELSE [P EXCEPT !.heap[b].ops = SubSeq(ops, 1, n - 2) \o <<ops[n], ops[n - 1]>>]

GetVariableValue(name) ==
    [op |-> "GetVariableValue", ty |-> DeclaredTypes[name], id |-> name]

\* RegisterOpAssignmentOperator, lines 795-803
RegisterOpAssignmentOperator(P, op) ==
    [P EXCEPT !.OpAssignmentOperator = op,
              !.InfixOperandCount = Append(@, 0),
              !.InfixOperatorList = Append(@, <<>>),
              !.PassedParameterCount = Append(@, 0)]

\* new VM::Operations::Concatenate(firstisarray, secondisarray)
Concatenate(first, second) ==
    [op |-> "Concatenate", ty |-> "String", first |-> first, second |-> second]

\* The compound assignment without the swap of the value and the read.
C27_LeavesValueBelowRead(P) ==
    LET n == Len(P.TheStack)
        lvalue == P.TheStack[n]
        value == P.TheStack[n - 1]
        P1 == [P EXCEPT !.TheStack = SubSeq(@, 1, n - 2)]
        lefttype == DeclaredTypes[lvalue.name]
        type == DetermineEffectiveType(value)
        P2 == AddOperationToCurrentBlock(P1, PushOperation(GetVariableValue(lvalue.name)))
        op == P.OpAssignmentOperator
        arithmeticop ==
            IF op = "ConcatAssign" THEN PushOperation(Concatenate(FALSE, FALSE))
            ELSE PushOperation(ArithOp(OpAssignFunctions[op], type, FALSE, FALSE, 2))
        P3 == AddOperationToCurrentBlock(P2, arithmeticop)
    IN  IF n < 2 THEN UndefinedParse(P)
        ELSE IF lvalue.Type # "IDENTIFIER" THEN ReportFatalError(P1)
        ELSE IF lefttype # type THEN ReportFatalError(P1)
        ELSE IF P2.ub THEN P2
        ELSE IF op \in DOMAIN OpAssignFunctions /\ type \notin NumericTypes
        THEN ParserFailure(P2)
        ELSE IF op = "ConcatAssign" /\ type # "String" THEN ParserFailure(P2)
        ELSE IF op \notin DOMAIN OpAssignFunctions \cup {"ConcatAssign"} THEN ParserFailure(P2)
        ELSE AddOperationToCurrentBlock(P3,
                 [POp("AssignValue", "Null") EXCEPT !.id = lvalue.name])

\* RegisterOpAssignment, lines 710-790
RegisterOpAssignment(P) ==
    LET n == Len(P.TheStack)
        lvalue == P.TheStack[n]
        value == P.TheStack[n - 1]
        P1 == [P EXCEPT !.TheStack = SubSeq(@, 1, n - 2)]
        lefttype == DeclaredTypes[lvalue.name]
        type == DetermineEffectiveType(value)
        P2 == ReverseTailOperations(
                 AddOperationToCurrentBlock(P1, PushOperation(GetVariableValue(lvalue.name))))
        op == P.OpAssignmentOperator
        arithmeticop ==
            IF op = "ConcatAssign" THEN PushOperation(Concatenate(FALSE, FALSE))
            ELSE PushOperation(ArithOp(OpAssignFunctions[op], type, FALSE, FALSE, 2))
        P3 == AddOperationToCurrentBlock(P2, arithmeticop)
    IN  IF n < 2 THEN UndefinedParse(P)
        ELSE IF lvalue.Type # "IDENTIFIER" THEN ReportFatalError(P1)
        ELSE IF lefttype # type THEN ReportFatalError(P1)
        ELSE IF P2.ub THEN P2
        ELSE IF op \in DOMAIN OpAssignFunctions /\ type \notin NumericTypes
        THEN ParserFailure(P2)
        ELSE IF op = "ConcatAssign" /\ type # "String" THEN ParserFailure(P2)
        ELSE IF op \notin DOMAIN OpAssignFunctions \cup {"ConcatAssign"} THEN ParserFailure(P2)
        ELSE AddOperationToCurrentBlock(P3,
                 [POp("AssignValue", "Null") EXCEPT !.id = lvalue.name])

\* The literal 1 of the variable's type.
PushLiteralOne(ty) == [POp("PushLiteral", ty) EXCEPT !.id = "1"]

\* PreincrementVariable (825-858), PredecrementVariable (863-896),
\* PostincrementVariable (901-934), PostdecrementVariable (939-972): fn is
\* add or subtract; the postfix forms defer their operations.
IncDecVariable(P, fn, deferred) ==
    LET name == P.SavedStringSlot_IncDec
        type == DeclaredTypes[name]
        ops == <<PushOperation(GetVariableValue(name)), PushLiteralOne(type),
                 PushOperation(ArithOp(fn, type, FALSE, FALSE, 2)),
                 [POp("AssignValue", "Null") EXCEPT !.id = name]>>
        b == Back(P.Blocks).TheBlock
    IN  IF ~IsNumeric(type) THEN ReportFatalError(P)
        ELSE IF deferred THEN [P EXCEPT !.DeferredOperations = @ \o ops]
        ELSE IF P.Blocks = <<>> THEN UndefinedParse(P)
        ELSE [P EXCEPT !.heap[b].ops = @ \o ops]

PreincrementVariable(P) == IncDecVariable(P, "add", FALSE)

PredecrementVariable(P) == IncDecVariable(P, "subtract", FALSE)

PostincrementVariable(P) == IncDecVariable(P, "add", TRUE)

PostdecrementVariable(P) == IncDecVariable(P, "subtract", TRUE)

\* How many compound assignments, increments and decrements a body holds.
MaxStatements == 1

\* What stands on the left of a compound assignment: a variable, or
\* something that is not one.
LeftSides ==
    {StackEntry("IDENTIFIER", v, DeclaredTypes[v]) : v \in DOMAIN DeclaredTypes}
    \cup {StackEntry("LITERAL", "", "Integer")}

\* x op= value, up to the end of the right side: the operator is
\* registered, the value is pushed and leaves its entry, and the entry of
\* the left side is on top of TheStack.
StatementOpAssignOperator ==
    /\ Building /\ ps.ph = "stmt" /\ ps.used.stmt < MaxStatements
    /\ \E op \in DOMAIN OpAssignFunctions \cup {"ConcatAssign"}, left \in LeftSides,
          ty \in OperandTypes \cup {"String"} :
         LET P1 == RegisterOpAssignmentOperator(ps, op)
             P2 == AddOperationToCurrentBlock(P1, POp("PushOperation", ty))
         IN  ps' = [P2 EXCEPT !.TheStack = @ \o <<StackEntry("LITERAL", "", ty), left>>,
                              !.ph = "opassign", !.used.stmt = @ + 1]
    /\ UNCHANGED <<ld, rt>>

\* the end of x op= value
StatementOpAssignment ==
    /\ Building /\ ps.ph = "opassign"
    /\ ps' = [RegisterOpAssignment(ps) EXCEPT !.ph = "stmt"]
    /\ UNCHANGED <<ld, rt>>

\* ++x, --x, x++ and x--
StatementIncDec ==
    /\ Building /\ ps.ph = "stmt" /\ ps.used.stmt < MaxStatements
    /\ \E name \in DOMAIN DeclaredTypes, form \in 1..4 :
         LET P == [ps EXCEPT !.SavedStringSlot_IncDec = name, !.used.stmt = @ + 1]
         IN  ps' = CASE form = 1 -> PreincrementVariable(P)
                     [] form = 2 -> PredecrementVariable(P)
                     [] form = 3 -> PostincrementVariable(P)
                     [] form = 4 -> PostdecrementVariable(P)
    /\ UNCHANGED <<ld, rt>>

\* A function body that holds statements, one if and one loop.
InitStatement ==
    /\ ps = [NewParserState EXCEPT
               !.used = [k \in DOMAIN @ |->
                           CASE k = "if" -> MaxIfs - 1
                             [] k = "loop" -> MaxLoops - 1
                             [] k = "stmt" -> 0
                             [] OTHER -> IF k = "fork" THEN MaxForks ELSE MaxOf(k)]]
    /\ ld = Unloaded /\ rt = <<>>

NextStatement ==
    \/ StatementOpAssignOperator
    \/ StatementOpAssignment
    \/ StatementIncDec
    \/ FlowRegisterControl
    \/ FlowCondition
    \/ FlowEndOfWhileLoopConditional
    \/ FlowEnterBlock
    \/ FlowExitBlock
    \/ FlowPopDoWhileLoop

SpecStatement == InitStatement /\ [][NextStatement]_vars

\* The tail operation of the block on top of Blocks is a NoOp.
TailIsNoOp(P) ==
    /\ P.Blocks # <<>>
    /\ LET ops == P.heap[Back(P.Blocks).TheBlock].ops
       IN  ops # <<>> /\ ops[Len(ops)].op = "NoOp"

\* C14: every type or arity violation the builder detects (a non-Boolean
\* if, elseif or do-while condition, a compound assignment whose operand
\* types disagree or whose left side is not a variable, an increment or
\* decrement of a non-numeric variable) sets the fatal flag and puts a NoOp
\* in the current block in place of the rejected operation.
C14_ViolationLeavesNoOp ==
    [][(Alive(ps) /\ ~ps.ParseFailed /\ ps'.ParseFailed) => TailIsNoOp(ps')]_vars

\* The operations of the block on top of Blocks.
CurrentOps(P) == P.heap[Back(P.Blocks).TheBlock].ops

\* The step that ends x op= value, with x a variable of the type of value.
AssignsCompound ==
    /\ ps.ph = "opassign" /\ ps'.ph = "stmt" /\ Alive(ps')
    /\ Back(ps.TheStack).Type = "IDENTIFIER"
    /\ DeclaredTypes[Back(ps.TheStack).name] = DetermineEffectiveType(Back(Pop(ps.TheStack)))

\* C27: a compound assignment x op= value whose types agree ends the block
\* with a push of GetVariableValue(x), the operation of value, a
\* PushOperation wrapping the arithmetic operation of op (or Concatenate)
\* with both is-array flags false, and AssignValue(x); the operations
\* before the value stay as they were.
C27_CompoundAssignmentShape ==
    [][AssignsCompound =>
        LET x == Back(ps.TheStack).name
            before == CurrentOps(ps)
            after == CurrentOps(ps')
            n == Len(before)
            wrapped == after[n + 2].sub[1]
        IN  /\ n >= 1 /\ Len(after) = n + 3
            /\ SubSeq(after, 1, n - 1) = SubSeq(before, 1, n - 1)
            /\ after[n] = PushOperation(GetVariableValue(x))
            /\ after[n + 1] = before[n]
            /\ after[n + 2].op = "PushOperation" /\ Len(after[n + 2].sub) = 1
            /\ IF ps.OpAssignmentOperator = "ConcatAssign" THEN wrapped.op = "Concatenate"
               ELSE /\ wrapped.op = "Arithmetic" /\ wrapped.numParams = 2
                    /\ wrapped.fn = OpAssignFunctions[ps.OpAssignmentOperator]
                    /\ wrapped.ty = DeclaredTypes[x]
            /\ ~wrapped.first /\ ~wrapped.second
            /\ after[n + 3] = [POp("AssignValue", "Null") EXCEPT !.id = x]]_vars

\* A compound assignment has been built: the block ends with the read of
\* the variable, the pushed value, the wrapped operation and the
\* AssignValue.
C27_CompoundAssignmentBuilt ==
    /\ Alive(ps) /\ ~ps.ParseFailed /\ ps.ph = "stmt" /\ ps.Blocks # <<>>
    /\ LET ops == CurrentOps(ps)
           n == Len(ops)
       IN  /\ n >= 4 /\ ops[n].op = "AssignValue"
           /\ ops[n - 1].op = "PushOperation" /\ ops[n - 1].sub # <<>>
           /\ ops[n - 1].sub[1].op \in {"Arithmetic", "Concatenate"}
           /\ ops[n - 2].op = "PushOperation" /\ ops[n - 2].sub = <<>>
           /\ ops[n - 3].op = "PushOperation" /\ ops[n - 3].sub # <<>>
           /\ ops[n - 3].sub[1].op = "GetVariableValue"

\* ---------------------------------------------------------------------
\* The arithmetic builders on every parameter list
\* (Op Generation/Arithmetic.cpp).

MaxParameters == 3

\* The parser inside a function body after a call's parameters, none to
\* MaxParameters of them; the count the grammar kept is their number.
AfterAnyParameters ==
    {[NewParserState EXCEPT !.TheStack = @ \o params,
                            !.PassedParameterCount = <<Len(params)>>] :
        params \in UNION {[1..n -> ArithmeticEntries] : n \in 0..MaxParameters}}

InitArithmetic == ps \in AfterAnyParameters /\ ld = Unloaded /\ rt = <<>>

NextArithmetic == BuildArithmetic

SpecArithmetic == InitArithmetic /\ [][NextArithmetic]_vars

\* A step in which one of the four builders runs.
BuildsArithmetic == ps.ph = "stmt" /\ ps'.ph = "built"

\* The entries the call's parameters left on TheStack, first parameter first.
PassedParameters ==
    SubSeq(ps.TheStack, Len(ps.TheStack) - Back(ps.PassedParameterCount) + 1,
           Len(ps.TheStack))

BinaryForm ==
    /\ Back(ps.PassedParameterCount) = 2
    /\ PassedParameters[1].ty = PassedParameters[2].ty
    /\ PassedParameters[1].ty \in NumericTypes

FoldForm ==
    /\ Back(ps.PassedParameterCount) = 1
    /\ PassedParameters[1].Type = "OPERATION" /\ PassedParameters[1].cons
    /\ PassedParameters[1].elem \in NumericTypes

\* C15: a builder returns a typed arithmetic operation only for two operands
\* of one numeric type (carrying the operands' is-array flags) or for one
\* array constructor of numeric elements (the fold form); in every other
\* case it reports a fatal error and returns a NoOp.
C15_TypedOperationOrNoOp ==
    [][BuildsArithmetic =>
          IF BinaryForm
          THEN /\ \E fn \in ArithFunctions :
                    ps'.built = ArithOp(fn, PassedParameters[1].ty,
                                        PassedParameters[1].isArray,
                                        PassedParameters[2].isArray, 2)
               /\ ~ps'.ParseFailed
          ELSE IF FoldForm
          THEN /\ \E fn \in ArithFunctions :
                    ps'.built = FoldOp(fn, PassedParameters[1].elem)
               /\ ~ps'.ParseFailed
          ELSE ps'.built = NoOp /\ ps'.ParseFailed]_vars

\* A binary operation over an array and a scalar was built, and so was a fold.
C15_BinaryWithArrayFlagBuilt ==
    /\ ps.ph = "built" /\ ps.built.op = "Arithmetic"
    /\ ps.built.first /\ ~ps.built.second /\ ~ps.ParseFailed

\* C16: on every path through a builder exactly PassedParameterCount.top()
\* entries are removed from TheStack.
C16_RemovesPassedParameterCount ==
    [][BuildsArithmetic =>
          ps'.TheStack = SubSeq(ps.TheStack, 1,
                                Len(ps.TheStack) - Back(ps.PassedParameterCount))]_vars

\* A call with three parameters was rejected and its three entries are gone.
C16_WrongArityRemoved ==
    /\ ps.ph = "built" /\ ps.ParseFailed /\ ps.built = NoOp
    /\ ps.PassedParameterCount = <<3>> /\ ps.TheStack = NewParserState.TheStack

\* ---------------------------------------------------------------------
\* Structure type definitions (Parser State Machine/Structures.cpp).

MaxStructures == 3

\* Members added over all the definitions of a run.
MaxMembers == 3

\* Names a structure definition may carry, and the tuple types and function
\* signatures the enclosing scope already holds.
StructureNames == {"A", "B"}

TupleTypeNames == {"T"}

SignatureNames == {"F"}

\* "U" is bound to nothing.
MemberTypeNames == StructureNames \cup TupleTypeNames \cup SignatureNames \cup {"U"}

\* ParserState::ParserState: no structure under definition. StructureTypes
\* is the name -> ID map of CurrentScope (0: unbound), StructureRegistry the
\* descriptors by ID.
NewStructureParser ==
    [CreatedStructureType |-> [live |-> FALSE, members |-> <<>>],
     VariableNameStack |-> <<>>, UpcomingNestedMemberType |-> "",
     StructureTypes |-> [n \in StructureNames |-> 0], StructureRegistry |-> <<>>,
     ParseFailed |-> FALSE, threw |-> FALSE, ub |-> FALSE, message |-> "",
     ph |-> "idle", defined |-> 0, added |-> 0]

Member(type, hint) == [type |-> type, hint |-> hint]

\* ScopeDescription lookups by name.
HasTupleType(P, name) == name \in TupleTypeNames

HasStructureType(P, name) == name \in StructureNames /\ P.StructureTypes[name] # 0

IsFunctionSignature(P, name) == name \in SignatureNames

GetTupleTypeID(P, name) == 1

GetStructureTypeID(P, name) == P.StructureTypes[name]

\* StructureType::AddMember on the structure under definition.
AddMember(P, m) == [P EXCEPT !.CreatedStructureType.members = Append(@, m)]

\* ScopeDescription::AddStructureType: the descriptor gets the next ID; a
\* name bound before is rebound, keeps its binding, or is refused.
AddStructureType(P, name, members, repeated) ==
    LET id == Len(P.StructureRegistry) + 1
    IN  IF P.StructureTypes[name] # 0 /\ repeated = "refused" THEN ParserFailure(P)
        ELSE [P EXCEPT !.StructureRegistry = Append(@, members),
                       !.StructureTypes[name] =
                           IF @ # 0 /\ repeated = "kept" THEN @ ELSE id]

RegisterStructureType(P, identifier) ==
    IF P.CreatedStructureType.live THEN ParserFailure(P)
    ELSE [P EXCEPT !.CreatedStructureType = [live |-> TRUE, members |-> <<>>],
                   !.VariableNameStack = Append(@, identifier)]

RegisterStructureMember(P, type) ==
    IF ~P.CreatedStructureType.live THEN ParserFailure(P)
    ELSE IF type \in {"Tuple", "Structure"} THEN ParserFailure(P)
    ELSE AddMember(P, Member(type, 0))

RegisterStructureUnknownTypeName(P, type) == [P EXCEPT !.UpcomingNestedMemberType = type]

\* A member naming the structure under definition is taken as a member of
\* the type the definition is about to register.
C20_ResolvesOwnName(P) ==
    LET type == P.UpcomingNestedMemberType
    IN  IF ~P.CreatedStructureType.live THEN UndefinedParse(P)
        ELSE IF HasTupleType(P, type)
        THEN AddMember(P, Member("Tuple", GetTupleTypeID(P, type)))
        ELSE IF HasStructureType(P, type)
        THEN AddMember(P, Member("Structure", GetStructureTypeID(P, type)))
        ELSE IF IsFunctionSignature(P, type) THEN AddMember(P, Member("Function", 0))
        ELSE IF P.VariableNameStack = <<>> THEN UndefinedParse(P)
        ELSE IF type = Back(P.VariableNameStack)
        THEN AddMember(P, Member("Structure", Len(P.StructureRegistry) + 1))
        ELSE AddMember([ReportFatalError(P) EXCEPT !.message = "unrecognized"],
                       Member("Error", 0))

\* The type name registered last is looked up as a tuple type, a structure
\* type and a function signature, in that order.
RegisterStructureMemberUnknown(P) ==
    LET type == P.UpcomingNestedMemberType
    IN  IF ~P.CreatedStructureType.live THEN UndefinedParse(P)
        ELSE IF HasTupleType(P, type)
        THEN AddMember(P, Member("Tuple", GetTupleTypeID(P, type)))
        ELSE IF HasStructureType(P, type)
        THEN AddMember(P, Member("Structure", GetStructureTypeID(P, type)))
        ELSE IF IsFunctionSignature(P, type) THEN AddMember(P, Member("Function", 0))
        ELSE IF P.VariableNameStack = <<>> THEN UndefinedParse(P)
        ELSE AddMember([ReportFatalError(P) EXCEPT
                           !.message = IF type = Back(P.VariableNameStack)
                                       THEN "contains itself" ELSE "unrecognized"],
                       Member("Error", 0))

FinishStructureType(P, repeated) ==
    LET members == P.CreatedStructureType.members
        P1 == IF members = <<>>
              THEN [ReportFatalError(P) EXCEPT !.message = "no members"]
              ELSE AddStructureType(P, Back(P.VariableNameStack), members, repeated)
    IN  IF ~P.CreatedStructureType.live THEN UndefinedParse(P)
        ELSE IF P.VariableNameStack = <<>> THEN UndefinedParse(P)
        ELSE IF P1.threw THEN P1
        ELSE [P1 EXCEPT !.VariableNameStack = Pop(@),
                        !.CreatedStructureType = [live |-> FALSE, members |-> <<>>]]

\* structure <name> {
StructRegisterType ==
    /\ Alive(ps) /\ ps.ph = "idle" /\ ps.defined < MaxStructures
    /\ \E identifier \in StructureNames :
         ps' = [RegisterStructureType(ps, identifier) EXCEPT !.defined = @ + 1]
    /\ UNCHANGED <<ld, rt>>

\* <primitive type> <member>
StructMember ==
    /\ Alive(ps) /\ ps.ph = "idle" /\ ps.added < MaxMembers
    /\ \E type \in {"Integer", "Structure"} :
         ps' = [RegisterStructureMember(ps, type) EXCEPT !.added = @ + 1]
    /\ UNCHANGED <<ld, rt>>

\* <type name> of a member whose type is not a primitive
StructUnknownTypeName ==
    /\ Alive(ps) /\ ps.ph = "idle" /\ ps.added < MaxMembers
    /\ \E type \in MemberTypeNames :
         ps' = [RegisterStructureUnknownTypeName(ps, type) EXCEPT
                  !.ph = "typed", !.added = @ + 1]
    /\ UNCHANGED <<ld, rt>>

\* <member> after its type name
StructMemberUnknown ==
    /\ Alive(ps) /\ ps.ph = "typed"
    /\ ps' = [RegisterStructureMemberUnknown(ps) EXCEPT !.ph = "idle"]
    /\ UNCHANGED <<ld, rt>>

\* }
StructFinish ==
    /\ Alive(ps) /\ ps.ph = "idle"
    /\ \E repeated \in {"rebound", "kept", "refused"} :
         ps' = FinishStructureType(ps, repeated)
    /\ UNCHANGED <<ld, rt>>

InitStructure == ps = NewStructureParser /\ ld = Unloaded /\ rt = <<>>

NextStructure ==
    \/ StructRegisterType \/ StructMember \/ StructUnknownTypeName
    \/ StructMemberUnknown \/ StructFinish

SpecStructure == InitStructure /\ [][NextStructure]_vars

\* The structure IDs among the members of a descriptor.
NestedStructures(members) ==
    {members[i].hint : i \in {j \in 1..Len(members) : members[j].type = "Structure"}}

\* The structure IDs reached from the IDs S through nested members.
RECURSIVE Contained(_, _)
Contained(P, S) ==
    LET known == S \cap (1..Len(P.StructureRegistry))
        next == S \cup UNION {NestedStructures(P.StructureRegistry[id]) : id \in known}
    IN  IF next = S THEN S ELSE Contained(P, next)

ContainsItself(P) ==
    \E id \in 1..Len(P.StructureRegistry) :
        id \in Contained(P, NestedStructures(P.StructureRegistry[id]))

\* A step that adds a member whose type is given by name.
AddsNamedMember == Alive(ps) /\ ps.ph = "typed" /\ Alive(ps')

NamesOwnStructure == ps.UpcomingNestedMemberType = Back(ps.VariableNameStack)

\* A composite member names a type the scope holds when the member is added.
NamesRegisteredComposite ==
    LET m == Back(ps'.CreatedStructureType.members)
    IN  /\ m.type = "Structure" =>
             /\ HasStructureType(ps, ps.UpcomingNestedMemberType)
             /\ m.hint \in 1..Len(ps.StructureRegistry)
        /\ m.type = "Tuple" => HasTupleType(ps, ps.UpcomingNestedMemberType)

RejectedWithFatalError ==
    ps'.ParseFailed /\ Back(ps'.CreatedStructureType.members).type = "Error"

\* C20 as stated: no registered structure type contains itself, directly or
\* through nested members; a member whose type name is the structure under
\* definition is rejected with a fatal error, and a member only names a
\* composite type registered when the member is added.
C20_OwnNameAlwaysRejected ==
    [][/\ Alive(ps') => ~ContainsItself(ps')
       /\ AddsNamedMember =>
             /\ NamesOwnStructure => RejectedWithFatalError
             /\ NamesRegisteredComposite]_vars

\* C20 amended: the member naming the structure under definition is rejected
\* when that name is bound to no tuple type, structure type or function
\* signature of the scope; a name bound by an earlier definition resolves to
\* that earlier type.
C20_NoSelfContainment ==
    [][/\ Alive(ps') => ~ContainsItself(ps')
       /\ AddsNamedMember =>
             /\ NamesOwnStructure =>
                   IF HasStructureType(ps, ps.UpcomingNestedMemberType)
                   THEN Back(ps'.CreatedStructureType.members) =
                           Member("Structure", ps.StructureTypes[ps.UpcomingNestedMemberType])
                   ELSE RejectedWithFatalError /\ ps'.message = "contains itself"
             /\ NamesRegisteredComposite]_vars

\* A structure was registered after a member naming it was rejected, and
\* another was registered with a nested structure member.
C20_SelfMemberRejected ==
    /\ Alive(ps) /\ ps.ParseFailed
    /\ \E id \in 1..Len(ps.StructureRegistry) :
          \E i \in 1..Len(ps.StructureRegistry[id]) :
             ps.StructureRegistry[id][i].type = "Error"
    /\ \E id \in 1..Len(ps.StructureRegistry) :
          NestedStructures(ps.StructureRegistry[id]) # {}

\* ---------------------------------------------------------------------
\* Member access and composite assignment
\* (Parser State Machine/Structures.cpp, lines 116-408).

\* Members of one member path.
MaxPath == 3

\* The structure types of the scope by ID: 1 holds two primitives, 2 holds a
\* structure of type 1, 3 holds a structure of type 2.
CompositeStructures ==
    <<[x |-> Member("Integer", 0), y |-> Member("Real", 0)],
      [n |-> Member("Integer", 0), p |-> Member("Structure", 1)],
      [n |-> Member("Integer", 0), o |-> Member("Structure", 2)]>>

\* The one tuple type of the scope.
CompositeTuple == [a |-> Member("Integer", 0), b |-> Member("Real", 0)]

\* The variables of the scope: type and type hint.
CompositeVariables ==
    [s1 |-> Member("Structure", 1), s2 |-> Member("Structure", 2),
     s3 |-> Member("Structure", 3), t |-> Member("Tuple", 1), i |-> Member("Integer", 0)]

\* ScopeDescription and StructureType lookups.
GetVariableType(name) == CompositeVariables[name].type

GetVariableStructureTypeID(name) == CompositeVariables[name].hint

GetMemberType(structid, member) ==
    IF structid \in DOMAIN CompositeStructures /\ member \in DOMAIN CompositeStructures[structid]
    THEN CompositeStructures[structid][member].type ELSE "Error"

GetMemberTypeHint(structid, member) ==
    IF structid \in DOMAIN CompositeStructures /\ member \in DOMAIN CompositeStructures[structid]
    THEN CompositeStructures[structid][member].hint ELSE 0

GetTupleMemberType(member) ==
    IF member \in DOMAIN CompositeTuple THEN CompositeTuple[member].type ELSE "Error"

\* An operation of the block: push says a PushOperation wraps it, prior is
\* the operation a ReadStructureIndirect points back to, serial tells one
\* operation object from another.
CompositeOp(op, id, member) ==
    [op |-> op, id |-> id, member |-> member, prior |-> 0, chained |-> FALSE,
     push |-> FALSE, serial |-> 0, ty |-> "Null"]

Pushed(o) == [o EXCEPT !.push = TRUE]

ReadTuple(varname, membername) == CompositeOp("ReadTuple", varname, membername)

ReadStructure(varname, membername) == CompositeOp("ReadStructure", varname, membername)

ReadStructureIndirect(membername, priorop) ==
    [CompositeOp("ReadStructureIndirect", "", membername) EXCEPT !.prior = priorop]

AssignTuple(varname, membername) == CompositeOp("AssignTuple", varname, membername)

AssignStructure(varname, membername) == CompositeOp("AssignStructure", varname, membername)

AssignStructureIndirect(membername) == CompositeOp("AssignStructureIndirect", "", membername)

\* BindStructMemberReference(membername) is chained,
\* BindStructMemberReference(varname, membername) is not.
BindStructMemberReference(varname, membername) ==
    [CompositeOp("BindStructMemberReference", varname, membername) EXCEPT
        !.chained = (varname = "")]

ReadVariable(varname) == CompositeOp("GetVariableValue", varname, "")

LiteralOp(ty) == [CompositeOp("PushLiteral", "", "") EXCEPT !.ty = ty]

\* ParserState::ParserState, inside a function body at the start of a
\* statement: ops are the operations of the block on top of Blocks, loaded
\* those of the block a loader rebuilt from it.
NewCompositeParser ==
    [ops |-> <<>>, TheStack |-> <<>>, MemberAccesses |-> <<>>,
     MemberLevelLValue |-> 0, MemberLevelRValue |-> 0, LastMemberLevelRValue |-> 0,
     PassedParameterCount |-> <<0>>,
     ParseFailed |-> FALSE, threw |-> FALSE, ub |-> FALSE,
     allocated |-> 0, group |-> 0, loaded |-> <<>>, lvalue |-> <<>>, rvalue |-> <<>>,
     ph |-> "start"]

\* new: the operation object gets its identity.
AddCompositeOperation(P, o) ==
    [P EXCEPT !.ops = Append(@, [o EXCEPT !.serial = P.allocated + 1]),
              !.allocated = @ + 1]

IdentifierEntry(name) == [Type |-> "IDENTIFIER", name |-> name, op |-> 0]

OperationEntry(serial) == [Type |-> "OPERATION", name |-> "", op |-> serial]

\* RegisterCompositeLValue, lines 274-280
RegisterCompositeLValue(P, name) == [P EXCEPT !.TheStack = Append(@, IdentifierEntry(name))]

\* RegisterMemberLValueAccess, lines 209-213
RegisterMemberLValueAccess(P, membername) ==
    [P EXCEPT !.MemberAccesses = Append(@, membername), !.MemberLevelLValue = @ + 1]

\* RegisterMemberAccess, lines 136-140
RegisterMemberAccess(P, membername) ==
    [P EXCEPT !.MemberAccesses = Append(@, membername), !.MemberLevelRValue = @ + 1]

\* Every indirect read pointing back at the first read of the path.
RECURSIVE C28_LinksEveryReadToFirst(_, _)
C28_LinksEveryReadToFirst(P, istuple) ==
    LET reads == {j \in 1..Len(P.ops) : P.ops[j].op \in {"ReadStructure", "ReadTuple"}}
        first == CHOOSE j \in reads : \A k \in reads : k <= j
    IN  IF P.MemberAccesses = <<>> THEN P
        ELSE IF istuple THEN ParserFailure(P)
        ELSE C28_LinksEveryReadToFirst(
                 [AddCompositeOperation(P, Pushed(ReadStructureIndirect(Head(P.MemberAccesses),
                                                                        P.ops[first].serial)))
                     EXCEPT !.MemberAccesses = Tail(@)],
                 istuple)

\* Lines 188-198: one ReadStructureIndirect for every member left, each
\* pointing at the tail operation of the block.
RECURSIVE AddIndirectReads(_, _)
AddIndirectReads(P, istuple) ==
    IF P.MemberAccesses = <<>> THEN P
    ELSE IF istuple THEN ParserFailure(P)
    ELSE AddIndirectReads(
             [AddCompositeOperation(P, Pushed(ReadStructureIndirect(Head(P.MemberAccesses),
                                                                    Back(P.ops).serial)))
                 EXCEPT !.MemberAccesses = Tail(@)],
             istuple)

\* ResetMemberAccess, lines 145-204
ResetMemberAccess(P) ==
    LET variablename == Back(P.TheStack).name
        P1 == [P EXCEPT !.TheStack = Pop(@), !.ops = Pop(@)]
        istuple == GetVariableType(variablename) = "Tuple"
        first == IF istuple THEN ReadTuple(variablename, Head(P.MemberAccesses))
                 ELSE ReadStructure(variablename, Head(P.MemberAccesses))
        P2 == [AddCompositeOperation(P1, Pushed(first)) EXCEPT !.MemberAccesses = Tail(@)]
        P3 == AddIndirectReads(P2, istuple)
    IN  IF P.MemberAccesses = <<>> THEN P
        ELSE IF P.TheStack = <<>> THEN UndefinedParse(P)
        ELSE IF Back(P.TheStack).Type # "IDENTIFIER" THEN ParserFailure(P)
        ELSE IF P.ops = <<>> THEN UndefinedParse([P EXCEPT !.TheStack = Pop(@)])
        ELSE IF ~Alive(P3) THEN P3
        ELSE [P3 EXCEPT !.TheStack = Append(@, OperationEntry(Back(P3.ops).serial))]

\* Lines 250-254: a chained BindStructMemberReference per member but the
\* last.
RECURSIVE AddChainedBinds(_)
AddChainedBinds(P) ==
    IF Len(P.MemberAccesses) <= 1 THEN P
    ELSE AddChainedBinds(
             [AddCompositeOperation(P, Pushed(BindStructMemberReference("", Head(P.MemberAccesses))))
                 EXCEPT !.MemberAccesses = Tail(@)])

\* The l-value path whose later references are bound like the first.
C29_BindsEveryMemberUnchained(P) ==
    LET variablename == Back(P.TheStack).name
        P1 == [P EXCEPT !.TheStack = Pop(@)]
        istuple == GetVariableType(variablename) = "Tuple"
        n == Len(P.MemberAccesses)
        binds == [k \in 1..(n - 1) |->
                    Pushed(BindStructMemberReference(variablename, P.MemberAccesses[k]))]
        RECURSIVE AddAll(_, _)
        AddAll(Q, ops) == IF ops = <<>> THEN Q
                          ELSE AddAll(AddCompositeOperation(Q, Head(ops)), Tail(ops))
        emitted ==
            IF istuple THEN <<AssignTuple(variablename, Head(P.MemberAccesses))>>
            ELSE IF n = 1 THEN <<AssignStructure(variablename, Head(P.MemberAccesses))>>
            ELSE binds \o <<AssignStructureIndirect(P.MemberAccesses[n])>>
    IN  IF P.TheStack = <<>> THEN UndefinedParse(P)
        ELSE IF Back(P.TheStack).Type # "IDENTIFIER" THEN ParserFailure(P)
        ELSE IF istuple /\ n > 1 THEN ParserFailure(P1)
        ELSE IF n = 0 THEN UndefinedParse(P1)
        ELSE [AddAll(P1, emitted) EXCEPT !.MemberAccesses = <<>>]

\* ResetMemberAccessLValue, lines 221-263
ResetMemberAccessLValue(P) ==
    LET variablename == Back(P.TheStack).name
        P1 == [P EXCEPT !.TheStack = Pop(@)]
        istuple == GetVariableType(variablename) = "Tuple"
        n == Len(P.MemberAccesses)
        first == Pushed(BindStructMemberReference(variablename, Head(P.MemberAccesses)))
        P2 == AddChainedBinds([AddCompositeOperation(P1, first) EXCEPT !.MemberAccesses = Tail(@)])
        P3 == AddCompositeOperation(P2, AssignStructureIndirect(Head(P2.MemberAccesses)))
        emitted ==
            IF istuple
            THEN AddCompositeOperation(P1, AssignTuple(variablename, Head(P.MemberAccesses)))
            ELSE IF n = 1
            THEN AddCompositeOperation(P1, AssignStructure(variablename, Head(P.MemberAccesses)))
            ELSE P3
    IN  IF P.TheStack = <<>> THEN UndefinedParse(P)
        ELSE IF Back(P.TheStack).Type # "IDENTIFIER" THEN ParserFailure(P)
        ELSE IF istuple /\ n > 1 THEN ParserFailure(P1)
        ELSE IF n = 0 THEN UndefinedParse(P1)
        ELSE [emitted EXCEPT !.MemberAccesses = <<>>]

\* The operation of a block a pointer refers to.
Deref(ops, serial) == ops[CHOOSE j \in 1..Len(ops) : ops[j].serial = serial]

IsIn(ops, serial) == \E j \in 1..Len(ops) : ops[j].serial = serial

\* ReadStructureIndirect::WalkInstructionsForReadStruct, StructureOps.cpp
\* lines 95-114: the structure type the prior operation reads; -1 stands
\* for the InternalFailureException.
RECURSIVE WalkInstructionsForReadStruct(_, _)
WalkInstructionsForReadStruct(ops, serial) ==
    IF ~IsIn(ops, serial) THEN -1
    ELSE LET o == Deref(ops, serial)
         IN  IF ~o.push THEN -1
             ELSE IF o.op = "ReadStructure"
             THEN GetMemberTypeHint(GetVariableStructureTypeID(o.id), o.member)
             ELSE IF o.op # "ReadStructureIndirect" THEN -1
             ELSE LET structid == WalkInstructionsForReadStruct(ops, o.prior)
                  IN  IF structid = -1 THEN -1 ELSE GetMemberTypeHint(structid, o.member)

\* ReadStructureIndirect::WalkInstructionsForTypeHint, lines 116-120
WalkInstructionsForTypeHint(ops, o) ==
    LET structid == WalkInstructionsForReadStruct(ops, o.prior)
    IN  IF structid = -1 THEN -1 ELSE GetMemberTypeHint(structid, o.member)

\* GetType of an operation of the block, through a PushOperation to what it
\* wraps (StructureOps.cpp 50-53, 84-88, 214-217, 317-320, 371-374).
GetType(ops, o) ==
    CASE o.op = "PushLiteral" -> o.ty
      [] o.op = "GetVariableValue" -> GetVariableType(o.id)
      [] o.op = "ReadStructure" -> GetMemberType(GetVariableStructureTypeID(o.id), o.member)
      [] o.op = "ReadTuple" -> GetTupleMemberType(o.member)
      [] o.op = "ReadStructureIndirect" ->
            LET structid == WalkInstructionsForReadStruct(ops, o.prior)
            IN  IF structid = -1 THEN "Error" ELSE GetMemberType(structid, o.member)
      [] OTHER -> "Null"

\* Block::ShiftUpTailOperationGroup: the operations of the r-value, the
\* group at the tail, go above the operations of the l-value before them.
ShiftUpTailOperationGroup(P, k) ==
    LET n == Len(P.ops)
        g == P.group
    IN  IF g + k > n THEN UndefinedParse(P)
        ELSE [P EXCEPT !.ops = SubSeq(@, 1, n - g - k) \o SubSeq(@, n - g + 1, n)
                                 \o SubSeq(@, n - g - k + 1, n - g)]

\* Lines 341-360: back from the AssignStructureIndirect at the tail over the
\* pushed references to the one that names the variable. i is the index
\* under ops[--i].
RECURSIVE WalkBack(_, _, _)
WalkBack(ops, i, membersaccessed) ==
    IF i < 1 THEN [result |-> "undefined"]
    ELSE IF ~ops[i].push THEN [result |-> "threw"]
    ELSE IF ops[i].op # "BindStructMemberReference" THEN [result |-> "threw"]
    ELSE IF ~ops[i].chained
    THEN [result |-> "found", bindop |-> ops[i], membersaccessed |-> <<ops[i].member>> \o membersaccessed]
    ELSE WalkBack(ops, i - 1, <<ops[i].member>> \o membersaccessed)

\* Lines 364-376: lvaluetype and lvaluehint are assigned at a member
\* without a type hint only; set says whether they were assigned at all.
RECURSIVE WalkMembers(_, _, _)
WalkMembers(typehint, membersaccessed, found) ==
    IF membersaccessed = <<>> THEN found
    ELSE LET newtypehint == GetMemberTypeHint(typehint, Head(membersaccessed))
             lvaluetype == GetMemberType(typehint, Head(membersaccessed))
             here == IF newtypehint # 0 THEN found
                     ELSE [set |-> TRUE, type |-> lvaluetype,
                           hintset |-> found.hintset \/ lvaluetype = "Structure",
                           hint |-> IF lvaluetype = "Structure" THEN typehint ELSE found.hint]
         IN  WalkMembers(newtypehint, Tail(membersaccessed), here)

\* What a read of a variable that was never assigned can yield.
IndeterminateTypes == {"Null", "Integer", "Real", "Structure"}

IndeterminateHints == 0..Len(CompositeStructures)

\* FinalizeCompositeAssignment, lines 285-408. garbagetype and garbagehint
\* are what lvaluetype and lvaluehint hold when the function reads them
\* without having assigned them.
FinalizeCompositeAssignment(P, garbagetype, garbagehint) ==
    LET rtail == Back(P.ops)
        rvaluetype == GetType(P.ops, rtail)
        rvaluehint ==
            IF rvaluetype # "Structure" THEN 0
            ELSE CASE rtail.op = "GetVariableValue" -> GetVariableStructureTypeID(rtail.id)
                   [] rtail.op = "ReadStructure" ->
                        GetMemberTypeHint(GetVariableStructureTypeID(rtail.id), rtail.member)
                   [] rtail.op = "ReadStructureIndirect" -> WalkInstructionsForTypeHint(P.ops, rtail)
                   [] OTHER -> -1
        P1 == ShiftUpTailOperationGroup(
                  P, IF P.LastMemberLevelRValue > 0 THEN P.LastMemberLevelRValue
                     ELSE P.MemberLevelLValue)
        tailop == Back(P1.ops)
        walk == WalkBack(P1.ops, Len(P1.ops) - 1, <<tailop.member>>)
        found == WalkMembers(GetVariableStructureTypeID(walk.bindop.id), walk.membersaccessed,
                             [set |-> FALSE, type |-> garbagetype,
                              hintset |-> FALSE, hint |-> garbagehint])
        direct == GetMemberType(GetVariableStructureTypeID(tailop.id), tailop.member)
        lvaluetype == IF tailop.op = "AssignStructure" THEN direct ELSE found.type
        lvaluehint ==
            IF tailop.op = "AssignStructure"
            THEN IF direct = "Structure"
                 THEN GetMemberTypeHint(GetVariableStructureTypeID(tailop.id), tailop.member)
                 ELSE garbagehint
            ELSE found.hint
        mismatch ==
            IF tailop.op = "AssignTuple" THEN GetTupleMemberType(tailop.member) # rvaluetype
            ELSE lvaluetype # rvaluetype \/ (lvaluetype = "Structure" /\ lvaluehint # rvaluehint)
        P2 == IF mismatch THEN ReportFatalError(P1) ELSE P1
        count == Back(P.PassedParameterCount)
    IN  IF P.ops = <<>> THEN UndefinedParse(P)
        ELSE IF rvaluetype = "Structure" /\ ~rtail.push THEN UndefinedParse(P)
        ELSE IF rvaluehint = -1 THEN ParserFailure(P)
        ELSE IF P1.ub THEN P1
        ELSE IF tailop.op \notin {"AssignTuple", "AssignStructure", "AssignStructureIndirect"}
        THEN ParserFailure(P1)
        ELSE IF tailop.op = "AssignStructureIndirect" /\ walk.result = "undefined"
        THEN UndefinedParse(P1)
        ELSE IF tailop.op = "AssignStructureIndirect" /\ walk.result = "threw"
        THEN ParserFailure(P1)
        ELSE IF P.PassedParameterCount = <<>> \/ count > Len(P2.TheStack) THEN UndefinedParse(P2)
        ELSE [P2 EXCEPT !.TheStack = SubSeq(@, 1, Len(@) - count),
                        !.MemberLevelLValue = 0,
                        !.LastMemberLevelRValue = P.MemberLevelRValue,
                        !.MemberLevelRValue = 0]

\* The instruction of each operation (Bytecode::...).
CompositeInstruction ==
    [ReadTuple |-> "ReadTuple", AssignTuple |-> "WriteTuple",
     ReadStructure |-> "ReadStructure", AssignStructure |-> "WriteStructure",
     ReadStructureIndirect |-> "ReadStructureIndirect",
     AssignStructureIndirect |-> "WriteStructureIndirect",
     BindStructMemberReference |-> "BindStruct", GetVariableValue |-> "GetValue",
     PushLiteral |-> "PushLiteral"]

\* SerializationTraverser::WriteOp and WriteChainedOp, lines 373-419: the
\* instruction and its parameters, after PushOperation when the operation is
\* wrapped. The prior operation of a ReadStructureIndirect is not written.
WriteCompositeOp(o) ==
    (IF o.push THEN <<[t |-> "PushOperation"]>> ELSE <<>>)
    \o <<[t |-> CompositeInstruction[o.op], varname |-> o.id, membername |-> o.member,
          chained |-> o.chained, ty |-> o.ty]>>

RECURSIVE WriteCompositeBlock(_)
WriteCompositeBlock(ops) ==
    IF ops = <<>> THEN <<>> ELSE WriteCompositeOp(Head(ops)) \o WriteCompositeBlock(Tail(ops))

\* FileLoader::GenerateOpFromByteCode, Loading.cpp lines 672-745, 890-916 and
\* 1119-1148: the operation an instruction other than PushOperation adds to
\* newblock on the second pass.
GenerateCompositeOp(tok, newblock) ==
    CASE tok.t = "ReadTuple" -> ReadTuple(tok.varname, tok.membername)
      [] tok.t = "WriteTuple" -> AssignTuple(tok.varname, tok.membername)
      [] tok.t = "ReadStructure" -> ReadStructure(tok.varname, tok.membername)
      [] tok.t = "WriteStructure" -> AssignStructure(tok.varname, tok.membername)
      [] tok.t = "ReadStructureIndirect" ->
            ReadStructureIndirect(tok.membername,
                                  IF newblock = <<>> THEN 0 ELSE Back(newblock).serial)
      [] tok.t = "WriteStructureIndirect" -> AssignStructureIndirect(tok.membername)
      [] tok.t = "BindStruct" ->
            BindStructMemberReference(IF tok.chained THEN "" ELSE tok.varname, tok.membername)
      [] tok.t = "GetValue" -> ReadVariable(tok.varname)
      [] tok.t = "PushLiteral" -> LiteralOp(tok.ty)

\* Lines 654-660 and LoadCodeBlock: instruction by instruction; after
\* PushOperation the operation decoded next is taken off the tail and put
\* back wrapped.
RECURSIVE LoadCompositeBlock(_, _)
LoadCompositeBlock(toks, newblock) ==
    IF toks = <<>> THEN newblock
    ELSE LET wrapped == Head(toks).t = "PushOperation"
             tok == IF wrapped THEN toks[2] ELSE toks[1]
             o == [GenerateCompositeOp(tok, newblock) EXCEPT !.serial = Len(newblock) + 1]
         IN  LoadCompositeBlock(SubSeq(toks, IF wrapped THEN 3 ELSE 2, Len(toks)),
                                Append(newblock, IF wrapped THEN Pushed(o) ELSE o))

\* The members a path over a variable can go on with: those of the
\* structure the path has reached; under a tuple, the members of the tuple
\* and then one more name.
RECURSIVE ReachedStructure(_, _)
ReachedStructure(structid, path) ==
    IF path = <<>> \/ structid = 0 THEN structid
    ELSE ReachedStructure(GetMemberTypeHint(structid, Head(path)), Tail(path))

NextMembers(name, path) ==
    IF GetVariableType(name) = "Tuple"
    THEN IF path = <<>> THEN DOMAIN CompositeTuple ELSE {"a"}
    ELSE IF GetVariableType(name) # "Structure" THEN {}
    ELSE LET structid == ReachedStructure(GetVariableStructureTypeID(name), path)
         IN  IF structid = 0 THEN {} ELSE DOMAIN CompositeStructures[structid]

\* An operand of the statement: its operation at the tail of the block, one
\* more passed parameter; group counts the operations of the r-value.
PushCompositeOperand(P, o) ==
    [AddCompositeOperation(P, o) EXCEPT
        !.PassedParameterCount[Len(P.PassedParameterCount)] = @ + 1,
        !.group = 1]

\* v of v.m0...mk = on the left
CompositeLValue ==
    /\ Alive(ps) /\ ps.ph = "start"
    /\ \E name \in {v \in DOMAIN CompositeVariables :
                      GetVariableType(v) \in {"Structure", "Tuple"}} :
         ps' = [RegisterCompositeLValue(ps, name) EXCEPT !.ph = "lvalue", !.lvalue = <<name>>]
    /\ UNCHANGED <<ld, rt>>

\* .m on the left
CompositeMemberLValue ==
    /\ Alive(ps) /\ ps.ph = "lvalue" /\ Len(ps.MemberAccesses) < MaxPath
    /\ \E membername \in NextMembers(ps.lvalue[1], Tail(ps.lvalue)) :
         ps' = [RegisterMemberLValueAccess(ps, membername) EXCEPT
                  !.lvalue = Append(@, membername)]
    /\ UNCHANGED <<ld, rt>>

\* = after the path on the left
CompositeResetLValue ==
    /\ Alive(ps) /\ ps.ph = "lvalue" /\ ps.MemberAccesses # <<>>
    /\ ps' = [ResetMemberAccessLValue(ps) EXCEPT !.ph = "rvalue"]
    /\ UNCHANGED <<ld, rt>>

\* a literal on the right
CompositeLiteral ==
    /\ Alive(ps) /\ ps.ph = "rvalue"
    /\ \E ty \in {"Integer", "Real"} :
         ps' = [PushCompositeOperand(ps, LiteralOp(ty)) EXCEPT
                  !.ph = "finalize", !.rvalue = <<ty>>]
    /\ UNCHANGED <<ld, rt>>

\* a variable on the right: its push and its identifier entry
CompositeVariable ==
    /\ Alive(ps) /\ ps.ph = "rvalue"
    /\ \E name \in DOMAIN CompositeVariables :
         ps' = [PushCompositeOperand(ps, Pushed(ReadVariable(name))) EXCEPT
                  !.TheStack = Append(@, IdentifierEntry(name)),
                  !.ph = "member", !.rvalue = <<name>>]
    /\ UNCHANGED <<ld, rt>>

\* .m on the right
CompositeMemberAccess ==
    /\ Alive(ps) /\ ps.ph = "member" /\ Len(ps.MemberAccesses) < MaxPath
    /\ \E membername \in NextMembers(ps.rvalue[1], Tail(ps.rvalue)) :
         ps' = [RegisterMemberAccess(ps, membername) EXCEPT !.rvalue = Append(@, membername)]
    /\ UNCHANGED <<ld, rt>>

\* the end of the expression on the right
CompositeResetMemberAccess ==
    /\ Alive(ps) /\ ps.ph = "member"
    /\ LET P == ResetMemberAccess(ps)
       IN  ps' = [P EXCEPT !.ph = "finalize",
                           !.group = IF Len(ps.rvalue) > 1 THEN Len(ps.rvalue) - 1 ELSE 1]
    /\ UNCHANGED <<ld, rt>>

\* the end of the statement
CompositeFinalize ==
    /\ Alive(ps) /\ ps.ph = "finalize"
    /\ \E garbagetype \in IndeterminateTypes, garbagehint \in IndeterminateHints :
         ps' = [FinalizeCompositeAssignment(ps, garbagetype, garbagehint) EXCEPT !.ph = "done"]
    /\ UNCHANGED <<ld, rt>>

\* The block of a statement built without a fatal error is written and
\* loaded.
CompositeWriteAndLoad ==
    /\ Alive(ps) /\ ps.ph = "done" /\ ~ps.ParseFailed
    /\ ps' = [ps EXCEPT !.loaded = LoadCompositeBlock(WriteCompositeBlock(ps.ops), <<>>),
                        !.ph = "loaded"]
    /\ UNCHANGED <<ld, rt>>

InitComposite == ps = NewCompositeParser /\ ld = Unloaded /\ rt = <<>>

NextComposite ==
    \/ CompositeLValue
    \/ CompositeMemberLValue
    \/ CompositeResetLValue
    \/ CompositeLiteral
    \/ CompositeVariable
    \/ CompositeMemberAccess
    \/ CompositeResetMemberAccess
    \/ CompositeFinalize
    \/ CompositeWriteAndLoad

SpecComposite == InitComposite /\ [][NextComposite]_vars

\* The step that ends an r-value member path v.m0...mk.
ResetsMemberPath ==
    /\ ps.ph = "member" /\ ps'.ph = "finalize" /\ ps.MemberAccesses # <<>>

\* What the step emitted: the operations of the block after those that
\* stood before the push of v.
EmittedReads == SubSeq(ps'.ops, Len(ps.ops), Len(ps'.ops))

\* The reads of the path chained as C28 says, the first one an operation
\* named first.
ChainedReads(first) ==
    LET v == Back(ps.TheStack).name
        path == ps.MemberAccesses
        reads == EmittedReads
    IN  /\ Alive(ps')
        /\ SubSeq(ps'.ops, 1, Len(ps.ops) - 1) = Pop(ps.ops)
        /\ Back(ps.ops).op = "GetVariableValue" /\ Back(ps.ops).id = v
        /\ Len(reads) = Len(path)
        /\ reads[1].push /\ reads[1].op = first
        /\ reads[1].id = v /\ reads[1].member = path[1]
        /\ \A j \in 2..Len(path) :
              /\ reads[j].push /\ reads[j].op = "ReadStructureIndirect"
              /\ reads[j].member = path[j]
              /\ reads[j].prior = reads[j - 1].serial
        /\ ps'.MemberAccesses = <<>>
        /\ ps'.TheStack = Append(Pop(ps.TheStack), OperationEntry(Back(reads).serial))

\* A block with every pointer to an operation replaced by the position of
\* that operation in the block.
Linked(ops) ==
    [j \in 1..Len(ops) |->
        [ops[j] EXCEPT !.serial = j,
                       !.prior = IF IsIn(ops, ops[j].prior)
                                 THEN CHOOSE k \in 1..Len(ops) : ops[k].serial = ops[j].prior
                                 ELSE 0]]

\* The loaded block has the operations of the built one, and every indirect
\* read in it points at the operation before it.
SamePriorLinks ==
    /\ Linked(ps'.loaded) = Linked(ps.ops)
    /\ \A j \in 1..Len(ps'.loaded) :
          ps'.loaded[j].op = "ReadStructureIndirect" =>
              j > 1 /\ ps'.loaded[j].prior = ps'.loaded[j - 1].serial

ResetsLValuePath == ps.ph = "lvalue" /\ ps'.ph = "rvalue"

\* C29: an l-value member path of n members over v leaves AssignTuple(v, m)
\* when v is a tuple and n = 1, AssignStructure(v, m) when v is a structure
\* and n = 1, and for a structure and n >= 2 exactly n-1 pushed
\* BindStructMemberReference, the first naming v and unchained, the later
\* ones chained, then one AssignStructureIndirect of the last member; a
\* tuple path of more than one member aborts the build; MemberAccesses is
\* empty afterwards and the operations before stay as they were.
C29_LValuePathOperations ==
    [][ResetsLValuePath =>
        LET v == Back(ps.TheStack).name
            path == ps.MemberAccesses
            n == Len(path)
            emitted == SubSeq(ps'.ops, Len(ps.ops) + 1, Len(ps'.ops))
            plain(o) == [o EXCEPT !.serial = 0]
        IN  IF GetVariableType(v) = "Tuple" /\ n > 1 THEN ps'.threw
            ELSE /\ Alive(ps') /\ ps'.MemberAccesses = <<>>
                 /\ SubSeq(ps'.ops, 1, Len(ps.ops)) = ps.ops
                 /\ Len(emitted) = n
                 /\ IF GetVariableType(v) = "Tuple"
                    THEN plain(emitted[1]) = AssignTuple(v, path[1])
                    ELSE IF n = 1 THEN plain(emitted[1]) = AssignStructure(v, path[1])
                    ELSE /\ plain(emitted[1]) = Pushed(BindStructMemberReference(v, path[1]))
                         /\ ~emitted[1].chained
                         /\ \A j \in 2..(n - 1) :
                               /\ plain(emitted[j])
                                    = Pushed(BindStructMemberReference("", path[j]))
                               /\ emitted[j].chained
                         /\ plain(emitted[n]) = AssignStructureIndirect(path[n])]_vars

\* An l-value path of three members over a structure has been emitted.
C29_NestedLValueEmitted ==
    /\ ps.ph = "rvalue" /\ Alive(ps) /\ Len(ps.lvalue) = 4 /\ Len(ps.ops) = 3
    /\ ps.ops[3].op = "AssignStructureIndirect"

\* The type and type hint of what a path names: a literal's type, a
\* variable, or the member the path over a variable ends at.
RECURSIVE MemberOfPath(_, _)
MemberOfPath(structid, path) ==
    IF Len(path) = 1 THEN CompositeStructures[structid][path[1]]
    ELSE MemberOfPath(CompositeStructures[structid][path[1]].hint, Tail(path))

Named(path) ==
    IF path[1] \notin DOMAIN CompositeVariables THEN Member(path[1], 0)
    ELSE IF Len(path) = 1 THEN CompositeVariables[path[1]]
    ELSE IF GetVariableType(path[1]) = "Tuple" THEN CompositeTuple[path[2]]
    ELSE MemberOfPath(GetVariableStructureTypeID(path[1]), Tail(path))

\* The step that finalizes the composite assignment.
FinalizesAssignment == ps.ph = "finalize" /\ ps'.ph = "done" /\ Alive(ps')

\* The r-value and the assigned member disagree: in type, or both are
\* structures of different structure types.
Disagree(lvalue, rvalue) ==
    \/ Named(lvalue).type # Named(rvalue).type
    \/ Named(lvalue).type = "Structure" /\ Named(lvalue).hint # Named(rvalue).hint

\* C30: after a composite assignment is finalized a fatal error has been
\* reported exactly when the r-value's type differs from the assigned
\* member's type or, the member being a structure, the r-value's structure
\* type differs from the member's type hint; for AssignStructure,
\* AssignTuple and AssignStructureIndirect alike, a path whose last member
\* is a structure included.
C30_ReportsExactlyTheMismatches ==
    [][FinalizesAssignment => (ps'.ParseFailed <=> Disagree(ps.lvalue, ps.rvalue))]_vars

(***************************************************************************)
(* Function body entry and the replay of queued return-value              *)
(* initializations (FlowControl.cpp 234-282)                               *)
(***************************************************************************)
MaxReturns == 2
MaxEntries == 2
MaxBodyOps == 1

FunctionNames == {"f", "g"}
ReturnNames == {"r", "s"}

AssignValue(id) == [op |-> "AssignValue", id |-> id]
InitializeValue(id) == [op |-> "InitializeValue", id |-> id]
PushIntegerLiteral(v) == [op |-> "PushIntegerLiteral", id |-> v]
BodyOperation == [op |-> "DebugWriteStringExpression", id |-> ""]

\* An entry of FunctionReturnInitializationBlocks: no entry, an entry that
\* holds a NULL block, or an entry that holds a block.
NoEntry == [entry |-> "none", ops |-> <<>>]
NullEntry == [entry |-> "null", ops |-> <<>>]
BlockEntry(ops) == [entry |-> "block", ops |-> ops]

NewFunctionParser ==
    [FunctionReturnInitializationBlocks |-> [f \in FunctionNames |-> NoEntry],
     TheStack |-> <<>>, Blocks |-> <<>>, finished |-> <<>>,
     returns |-> [f \in FunctionNames |-> 0], entries |-> 0,
     threw |-> FALSE, ub |-> FALSE, ph |-> "preparse"]

\* The operations one return value's initializer leaves in the function's
\* queue: the pushes of its expression, then the assignment to the value.
ReturnInitialization(name, pushes) ==
    [i \in 1..pushes |-> PushIntegerLiteral(<<"1", "2">>[i])] \o <<AssignValue(name)>>

\* lines 263-276: the loop over the operations of the queued block
RECURSIVE ReplayOperations(_, _)
ReplayOperations(ops, block) ==
    IF ops = <<>> THEN block
    ELSE LET op == Head(ops)
         IN  ReplayOperations(Tail(ops),
                 IF op.op = "AssignValue"
                 THEN Append(block, InitializeValue(op.id))
                 ELSE Append(block, op))

\* lines 256-282: the queue entry of the function is not erased
C31_KeepsQueueEntry(P) ==
    LET entry == Back(P.TheStack)
        queued == P.FunctionReturnInitializationBlocks[entry.name]
        block == IF queued.entry = "block" THEN ReplayOperations(queued.ops, <<>>) ELSE <<>>
    IN  IF P.TheStack = <<>> THEN UndefinedParse(P)
        ELSE IF entry.Type # "IDENTIFIER" THEN ParserFailure(P)
        ELSE [P EXCEPT !.Blocks = Append(@, [name |-> entry.name, ops |-> block])]

\* EnterBlock for BLOCKENTRYTYPE_FUNCTION_NOCREATE, lines 234-283 and 294-296
EnterBlock_Function(P) ==
    LET entry == Back(P.TheStack)
        queued == P.FunctionReturnInitializationBlocks[entry.name]
        block == IF queued.entry = "block" THEN ReplayOperations(queued.ops, <<>>) ELSE <<>>
    IN  IF P.TheStack = <<>> THEN UndefinedParse(P)
        ELSE IF entry.Type # "IDENTIFIER" THEN ParserFailure(P)
        ELSE [P EXCEPT !.FunctionReturnInitializationBlocks[entry.name] = NoEntry,
                       !.Blocks = Append(@, [name |-> entry.name, ops |-> block])]

\* Preparse: a function is declared with a return value and no initializer
\* expression, which leaves an entry without a block.
FunctionDeclareReturn ==
    /\ ps.ph = "preparse"
    /\ \E f \in FunctionNames :
          /\ ps.FunctionReturnInitializationBlocks[f].entry = "none"
          /\ ps' = [ps EXCEPT !.FunctionReturnInitializationBlocks[f] = NullEntry]
    /\ UNCHANGED <<ld, rt>>

\* Preparse: the initializer of one more return value of a function is queued.
FunctionQueueInitialization ==
    /\ ps.ph = "preparse"
    /\ \E f \in FunctionNames, name \in ReturnNames, pushes \in 1..2 :
          /\ ps.returns[f] < MaxReturns
          /\ ps' = [ps EXCEPT !.FunctionReturnInitializationBlocks[f] =
                                   BlockEntry(@.ops \o ReturnInitialization(name, pushes)),
                              !.returns[f] = @ + 1]
    /\ UNCHANGED <<ld, rt>>

FunctionBeginParse ==
    /\ ps.ph = "preparse"
    /\ ps' = [ps EXCEPT !.ph = "parse"]
    /\ UNCHANGED <<ld, rt>>

\* Main parse: the definition of a function is met; its identifier, or the
\* operation entry a preceding expression left, is on top of TheStack.
FunctionDefinition ==
    /\ ps.ph = "parse" /\ Alive(ps) /\ ps.Blocks = <<>>
    /\ ps.entries < MaxEntries
    /\ \E e \in {[Type |-> "IDENTIFIER", name |-> f] : f \in FunctionNames}
                  \cup {[Type |-> "OPERATION", name |-> "f"]} :
          ps' = [ps EXCEPT !.TheStack = Append(@, e), !.entries = @ + 1, !.ph = "enter"]
    /\ UNCHANGED <<ld, rt>>

FunctionEnterBlock ==
    /\ ps.ph = "enter" /\ Alive(ps)
    /\ ps' = [EnterBlock_Function(ps) EXCEPT !.ph = "body"]
    /\ UNCHANGED <<ld, rt>>

FunctionBodyOperation ==
    /\ ps.ph = "body" /\ Alive(ps)
    /\ Len(SelectSeq(Back(ps.Blocks).ops, LAMBDA o : o = BodyOperation)) < MaxBodyOps
    /\ ps' = [ps EXCEPT !.Blocks[Len(ps.Blocks)].ops = Append(@, BodyOperation)]
    /\ UNCHANGED <<ld, rt>>

\* ExitBlock for the function's block: the block becomes the function's body.
FunctionExitBlock ==
    /\ ps.ph = "body" /\ Alive(ps)
    /\ ps' = [ps EXCEPT !.finished = Append(@, Back(ps.Blocks)),
                        !.Blocks = Pop(@), !.TheStack = Pop(@), !.ph = "parse"]
    /\ UNCHANGED <<ld, rt>>

InitFunctionEntry == ps = NewFunctionParser /\ ld = Unloaded /\ rt = <<>>

NextFunctionEntry ==
    \/ FunctionDeclareReturn
    \/ FunctionQueueInitialization
    \/ FunctionBeginParse
    \/ FunctionDefinition
    \/ FunctionEnterBlock
    \/ FunctionBodyOperation
    \/ FunctionExitBlock

SpecFunctionEntry == InitFunctionEntry /\ [][NextFunctionEntry]_vars

\* The step that enters the body block of the function named on TheStack.
EntersFunctionBody == ps.ph = "enter" /\ ps'.ph = "body" /\ Alive(ps')

QueuedFor(P) == P.FunctionReturnInitializationBlocks[Back(P.TheStack).name]

\* The queued operations with every AssignValue turned into an
\* InitializeValue of the same variable.
EveryAssignmentInitializes(ops) ==
    [i \in 1..Len(ops) |-> IF ops[i].op = "AssignValue" THEN InitializeValue(ops[i].id) ELSE ops[i]]

\* The queued operations with only the last one, when it is an AssignValue,
\* turned into an InitializeValue.
TrailingAssignmentInitializes(ops) ==
    [i \in 1..Len(ops) |-> IF i = Len(ops) /\ ops[i].op = "AssignValue"
                           THEN InitializeValue(ops[i].id) ELSE ops[i]]

\* The body block starts with the replayed operations and holds body
\* operations only after them.
RECURSIVE OnlyBodyOperations(_)
OnlyBodyOperations(ops) ==
    ops = <<>> \/ (Head(ops) = BodyOperation /\ OnlyBodyOperations(Tail(ops)))

MaxSubOps == 2

DecodedOp(name, a, sub) == [op |-> name, a |-> a, sub |-> sub]

WrapperOpcodes == {"PushOperation", "ConsArrayIndirect", "Map", "Reduce"}
CompoundOpcodes == {"BitwiseAnd", "BitwiseOr", "LogicalAnd", "LogicalOr"}

\* Operations without operands of their own in the stream.  A cast to
\* string of type 0 is one the loader rejects.
LeafOperations ==
    {DecodedOp("PushIntegerLiteral", 1, <<>>), DecodedOp("DebugWrite", 0, <<>>),
     DecodedOp("TypeCastToString", 1, <<>>), DecodedOp("TypeCastToString", 0, <<>>)}

UnitOperations ==
    LeafOperations \cup {DecodedOp(w, 0, <<l>>) : w \in WrapperOpcodes, l \in LeafOperations}

SubOperationLists(S, n) == UNION {[1..k -> S] : k \in 0..n}

CompoundOperations ==
    {DecodedOp(c, IF c \in {"BitwiseAnd", "BitwiseOr"} THEN 1 ELSE 0, sub) :
        c \in CompoundOpcodes, sub \in SubOperationLists(UnitOperations, MaxSubOps)}

\* The operations a code block of a built program is made of here.
SourceOperations ==
    LET small == {c \in CompoundOperations : Len(c.sub) <= 1}
    IN  UnitOperations \cup CompoundOperations
        \cup {DecodedOp("PushOperation", 0, <<c>>) : c \in small}
        \cup {DecodedOp(c, 0, <<n>>) : c \in {"LogicalAnd", "LogicalOr"}, n \in small}

\* The stream of an operation: its opcode with its inline operands (the
\* type tag in a, the sub-operation count in b), then the operations it owns.
RECURSIVE OperationStream(_)
RECURSIVE OperationsStream(_)
OperationStream(o) ==
    <<Tok(o.op, o.a, Len(o.sub))>> \o OperationsStream(o.sub)

OperationsStream(ops) ==
    IF ops = <<>> THEN <<>> ELSE OperationStream(Head(ops)) \o OperationsStream(Tail(ops))

NewDecoder(ops) ==
    [Buffer |-> OperationsStream(ops) \o <<T0("EndBlock")>>, Offset |-> 1,
     IsPrepass |-> TRUE, blocks |-> <<>>, newblock |-> 0,
     calls |-> <<>>, compounds |-> <<>>, discarded |-> 0,
     threw |-> FALSE, ub |-> FALSE, source |-> ops, pc |-> "pass1"]

\* Block::AddOperation
DecoderAdd(D, blk, o) ==
    IF D.IsPrepass THEN D ELSE [D EXCEPT !.blocks[blk] = Append(@, o)]

\* A temporary block: new VM::Block
NewTempBlock(D) == [D EXCEPT !.blocks = Append(@, <<>>)]

\* The end of a temporary block's life: it is the newest block; what it
\* still owns is destroyed with it.
DeleteTempBlock(D) ==
    [D EXCEPT !.discarded = @ + Len(Back(D.blocks)), !.blocks = Pop(@)]

\* 659, 1448: the tail is left in the block and the wrapper put after it
C37_WrapsWithoutPopping(D, blk, name, a) ==
    IF D.blocks[blk] = <<>> THEN [D EXCEPT !.ub = TRUE]
    ELSE [D EXCEPT !.blocks[blk] = Append(@, DecodedOp(name, a, <<Back(D.blocks[blk])>>))]

\* 659, 1448: newblock->AddOperation(new Wrapper(newblock->PopTailOperation()))
WrapTailOperation(D, blk, name, a) ==
    IF D.blocks[blk] = <<>> THEN [D EXCEPT !.ub = TRUE]
    ELSE [D EXCEPT !.blocks[blk] = Append(Pop(@), DecodedOp(name, a, <<Back(D.blocks[blk])>>))]

RECURSIVE DecodeOperation(_, _, _)
RECURSIVE DecodeSubOperations(_, _, _)

\* GenerateOpFromByteCode(ReadInstruction(), block)
DecodeNext(D, blk) ==
    IF D.Offset > Len(D.Buffer) THEN [D EXCEPT !.ub = TRUE]
    ELSE DecodeOperation([D EXCEPT !.Offset = @ + 1], D.Buffer[D.Offset], blk)

\* 977-984: each decoded sub-operation is put in front of those taken so far
C32_TakesSubOperationsReversed(D, testcount, sub) ==
    IF testcount = 0 \/ D.threw \/ D.ub THEN [D |-> D, sub |-> sub]
    ELSE LET D1 == DecodeNext(NewTempBlock(D), Len(D.blocks) + 1)
             tempblock == Back(D1.blocks)
         IN  IF D1.threw \/ D1.ub THEN [D |-> D1, sub |-> sub]
             ELSE IF D.IsPrepass
             THEN DecodeSubOperations(DeleteTempBlock(D1), testcount - 1, sub)
             ELSE IF tempblock = <<>> THEN [D |-> [D1 EXCEPT !.ub = TRUE], sub |-> sub]
             ELSE DecodeSubOperations(
                      DeleteTempBlock([D1 EXCEPT !.blocks[Len(D1.blocks)] = Pop(@)]),
                      testcount - 1, <<Back(tempblock)>> \o sub)

\* 977-984, 998-1005, 1031-1038, 1050-1057: the loop over testcount
DecodeSubOperations(D, testcount, sub) ==
    IF testcount = 0 \/ D.threw \/ D.ub THEN [D |-> D, sub |-> sub]
    ELSE LET D1 == DecodeNext(NewTempBlock(D), Len(D.blocks) + 1)
             tempblock == Back(D1.blocks)
         IN  IF D1.threw \/ D1.ub THEN [D |-> D1, sub |-> sub]
             ELSE IF D.IsPrepass
             THEN DecodeSubOperations(DeleteTempBlock(D1), testcount - 1, sub)
             ELSE IF tempblock = <<>> THEN [D |-> [D1 EXCEPT !.ub = TRUE], sub |-> sub]
             ELSE DecodeSubOperations(
                      DeleteTempBlock([D1 EXCEPT !.blocks[Len(D1.blocks)] = Pop(@)]),
                      testcount - 1, Append(sub, Back(tempblock)))

\* 968-1061: BitwiseAnd, BitwiseOr, LogicalAnd, LogicalOr
DecodeCompound(D, tok, blk) ==
    LET r == DecodeSubOperations(D, tok.b, <<>>)
        D1 == r.D
    IN  IF D1.threw \/ D1.ub THEN D1
        ELSE [DecoderAdd(D1, blk, DecodedOp(tok.t, tok.a, r.sub)) EXCEPT
                !.compounds = Append(@, [count |-> tok.b, owned |-> Len(r.sub),
                                         prepass |-> D.IsPrepass])]

\* 1339-1354: Map, Reduce
DecodeOverTempBlock(D, tok, blk) ==
    LET D1 == DecodeNext(NewTempBlock(D), Len(D.blocks) + 1)
        tempblock == Back(D1.blocks)
    IN  IF D1.threw \/ D1.ub THEN D1
        ELSE IF D.IsPrepass THEN DeleteTempBlock(D1)
        ELSE IF tempblock = <<>> THEN [D1 EXCEPT !.ub = TRUE]
        ELSE DecoderAdd(DeleteTempBlock([D1 EXCEPT !.blocks[Len(D1.blocks)] = Pop(@)]),
                        blk, DecodedOp(tok.t, tok.a, <<Back(tempblock)>>))

\* 654-660, 1441-1449: PushOperation, ConsArrayIndirect
DecodeWrapper(D, tok, blk) ==
    LET D1 == DecodeNext(D, blk)
    IN  IF D1.threw \/ D1.ub \/ D.IsPrepass THEN D1
        ELSE WrapTailOperation(D1, blk, tok.t, tok.a)

\* GenerateOpFromByteCode, 649-1457, for the opcodes above; each return of a
\* call is recorded with the growth of the block the call was given.
DecodeOperation(D, tok, blk) ==
    LET D1 == CASE tok.t \in {"PushOperation", "ConsArrayIndirect"} -> DecodeWrapper(D, tok, blk)
                [] tok.t \in {"Map", "Reduce"} -> DecodeOverTempBlock(D, tok, blk)
                [] tok.t \in CompoundOpcodes -> DecodeCompound(D, tok, blk)
                [] tok.t = "TypeCastToString" ->
                     IF D.IsPrepass THEN D
                     ELSE IF tok.a = 0 THEN [D EXCEPT !.threw = TRUE]
                     ELSE DecoderAdd(D, blk, DecodedOp(tok.t, tok.a, <<>>))
                [] tok.t \in {"PushIntegerLiteral", "DebugWrite"} ->
                     DecoderAdd(D, blk, DecodedOp(tok.t, tok.a, <<>>))
                [] OTHER -> [D EXCEPT !.threw = TRUE]
    IN  IF D1.threw \/ D1.ub \/ D.IsPrepass THEN D1
        ELSE [D1 EXCEPT !.calls = Append(@, [opcode |-> tok.t,
                                             grew |-> Len(D1.blocks[blk]) - Len(D.blocks[blk])])]

\* LoadCodeBlock, 629-644: one turn of the loop over an operation
DecodeInstruction ==
    /\ ld.pc \in {"pass1", "pass2"} /\ ~ld.threw /\ ~ld.ub
    /\ ld.Buffer[ld.Offset].t # "EndBlock"
    /\ ld' = DecodeNext(ld, ld.newblock)
    /\ UNCHANGED <<ps, rt>>

\* LoadCodeBlock, 639-640: EndBlock returns the block
DecodeEndBlock ==
    /\ ld.pc \in {"pass1", "pass2"} /\ ~ld.threw /\ ~ld.ub
    /\ ld.Buffer[ld.Offset].t = "EndBlock"
    /\ ld' = [ld EXCEPT !.Offset = @ + 1,
                        !.pc = IF ld.IsPrepass THEN "prepassed" ELSE "loaded"]
    /\ UNCHANGED <<ps, rt>>

\* The constructor's second pass, 84-88, and LoadCodeBlock's new block, 631-633
DecodeSecondPass ==
    /\ ld.pc = "prepassed"
    /\ ld' = [ld EXCEPT !.Offset = 1, !.IsPrepass = FALSE, !.blocks = <<<<>>>>,
                        !.newblock = 1, !.pc = "pass2"]
    /\ UNCHANGED <<ps, rt>>

InitDecode ==
    /\ ld \in {NewDecoder(<<o, DecodedOp("DebugWrite", 0, <<>>)>>) : o \in SourceOperations}
    /\ ps = 0
    /\ rt = 0

NextDecode == DecodeInstruction \/ DecodeEndBlock \/ DecodeSecondPass

SpecDecode == InitDecode /\ [][NextDecode]_vars

\* The second pass over the block has completed.
DecodedBlock == ld.pc = "loaded" /\ ~ld.threw /\ ~ld.ub

\* C32: a compound operation decoded from a stream with sub-operation count
\* n owns exactly n sub-operations, in stream order (the loaded block equals
\* the block the stream was written from), and no temporary block was
\* destroyed while still owning an operation.
C32_CompoundOwnsItsSubOperations ==
    /\ ld.discarded = 0
    /\ \A i \in DOMAIN ld.compounds :
          ~ld.compounds[i].prepass => ld.compounds[i].owned = ld.compounds[i].count
    /\ DecodedBlock => ld.blocks[1] = ld.source

\* A compound of two different sub-operations, the first of them a wrapped
\* operation, has been loaded.
C32_TwoSubOperationsLoaded ==
    /\ DecodedBlock
    /\ ld.blocks[1][1].op = "LogicalAnd"
    /\ Len(ld.blocks[1][1].sub) = 2
    /\ ld.blocks[1][1].sub[1].op = "PushOperation"
    /\ ld.blocks[1][1].sub[2].op = "PushIntegerLiteral"

\* C37: on the second pass every call of GenerateOpFromByteCode that
\* returns has made the block it was given exactly one operation longer,
\* the calls for PushOperation and ConsArrayIndirect, which decode a nested
\* operation into the same block, included.
C37_EachCallAddsOneOperation ==
    \A i \in DOMAIN ld.calls : ld.calls[i].grew = 1

\* A block was loaded whose decoding called for a compound operation, a
\* PushOperation and a ConsArrayIndirect.
C37_WrappersDecoded ==
    /\ DecodedBlock
    /\ \A opcode \in {"LogicalOr", "PushOperation", "ConsArrayIndirect"} :
          \E i \in DOMAIN ld.calls : ld.calls[i].opcode = opcode

(***************************************************************************)
(* The two passes over the header and the root scope, field by field:     *)
(* type maps, constants and stream offsets (Loading.cpp 67-95, 118-135,   *)
(* 241-557, 629-644, 1509-1520)                                            *)
(***************************************************************************)
MaxConstants == 2
MaxExtensions == 1

\* One field of the stream: an instruction byte, a 32-bit number, a flag or
\* a null-terminated string.
InsField(ins) == [k |-> "ins", ins |-> ins, num |-> 0, str |-> ""]
NumField(n) == [k |-> "num", ins |-> "", num |-> n, str |-> ""]
StrField(str) == [k |-> "str", ins |-> "", num |-> 0, str |-> str]
EndOfBuffer == [k |-> "eof", ins |-> "", num |-> 0, str |-> ""]

RECURSIVE Flatten(_)
Flatten(seqs) == IF seqs = <<>> THEN <<>> ELSE Head(seqs) \o Flatten(Tail(seqs))

\* A composite type of the stream and its members.
TypeMember(name, type, hint) == [name |-> name, type |-> type, hint |-> hint]
CompositeType(id, members) == [id |-> id, members |-> members]

\* A scope of the program the stream was written from.
SourceScope(id, parent, functions, tuples, structures, constants) ==
    [id |-> id, parent |-> parent, functions |-> functions, tuples |-> tuples,
     structures |-> structures, constants |-> constants]

EmptySourceScope(id, parent) == SourceScope(id, parent, <<>>, <<>>, <<>>, <<>>)

MemberFields(m) ==
    <<StrField(m.name), NumField(IF m.type = "Integer" THEN 1 ELSE IF m.type = "Tuple" THEN 2 ELSE 3),
      NumField(0)>>
    \o (IF m.type \in {"Structure", "Tuple"} THEN <<NumField(m.hint)>> ELSE <<>>)

TypeFields(t) ==
    <<NumField(t.id), InsField("Members"), NumField(Len(t.members))>>
    \o Flatten([i \in 1..Len(t.members) |-> MemberFields(t.members[i])])

\* The fields of a scope in the order LoadScope reads them.
RECURSIVE ScopeFields(_)
FunctionFields(f) ==
    <<StrField(f.name), NumField(f.id), NumField(0)>>
    \o ScopeFields(EmptySourceScope(f.local.id + 1, 0))
    \o ScopeFields(EmptySourceScope(f.local.id + 2, 0))
    \o <<InsField("BeginBlock")>> \o ScopeFields(f.local) \o <<InsField("EndBlock")>>

ScopeFields(sc) ==
    <<InsField("Scope"), NumField(sc.id), InsField("ParentScope"), NumField(sc.parent),
      InsField("Variables"), NumField(0), InsField("Ghosts"), NumField(0),
      InsField("Functions"), NumField(Len(sc.functions))>>
    \o Flatten([i \in 1..Len(sc.functions) |-> FunctionFields(sc.functions[i])])
    \o <<InsField("FunctionSignatureList"), NumField(0),
         InsField("TupleTypes"), NumField(0), InsField("TupleHints"), NumField(0),
         InsField("TupleTypeMap"), NumField(Len(sc.tuples))>>
    \o Flatten([i \in 1..Len(sc.tuples) |-> TypeFields(sc.tuples[i])])
    \o <<InsField("StructureTypes"), NumField(0), InsField("StructureHints"), NumField(0),
         InsField("StructureTypeMap"), NumField(Len(sc.structures))>>
    \o Flatten([i \in 1..Len(sc.structures) |-> TypeFields(sc.structures[i])])
    \o <<InsField("Constants"), NumField(Len(sc.constants))>>
    \o [i \in 1..Len(sc.constants) |-> StrField(sc.constants[i])]
    \o <<InsField("ResponseMaps"), NumField(0), InsField("Futures"), NumField(0),
         InsField("ArrayHints"), NumField(0), InsField("EndScope")>>

ProgramFields(extensions, root) ==
    <<InsField("Cookie"), NumField(0), NumField(extensions)>>
    \o [i \in 1..extensions |-> StrField("extension")]
    \o ScopeFields(root)

\* The programs loaded: a root scope with up to two structure types (the
\* second holding a member of the first), a tuple type and constants, and at
\* most one function whose local scope declares a structure type of its own,
\* with an Integer member or a member of a composite type of the root scope,
\* and constants.
ConstantLists == {SubSeq(<<"c", "d", "e", "f">>, 1, k) : k \in 0..MaxConstants}

RootStructureLists ==
    {<<>>, <<CompositeType(1, <<TypeMember("x", "Integer", 0)>>)>>,
     <<CompositeType(1, <<TypeMember("x", "Integer", 0)>>),
       CompositeType(2, <<TypeMember("m", "Structure", 1), TypeMember("t", "Tuple", 1)>>)>>}

RootTupleLists == {<<CompositeType(1, <<TypeMember("a", "Integer", 0)>>)>>}

LocalStructureLists(rootstructures, roottuples) ==
    {<<>>, <<CompositeType(3, <<TypeMember("x", "Integer", 0)>>)>>}
    \cup {<<CompositeType(3, <<TypeMember("m", "Structure", rootstructures[i].id)>>)>> :
            i \in DOMAIN rootstructures}
    \cup {<<CompositeType(3, <<TypeMember("t", "Tuple", roottuples[i].id)>>)>> :
            i \in DOMAIN roottuples}

SourceFunction(local) == [name |-> "f", id |-> 1, local |-> local]

SourcePrograms ==
    {SourceScope(1, 0, functions, tuples, structures, constants) :
        structures \in RootStructureLists, tuples \in RootTupleLists,
        constants \in ConstantLists,
        functions \in {<<>>} \cup
            {<<SourceFunction(SourceScope(2, 1, <<>>, <<>>, local, localconstants))>> :
                local \in UNION {LocalStructureLists(st, tu) :
                                    st \in RootStructureLists, tu \in RootTupleLists},
                localconstants \in ConstantLists}}

\* A program is well formed when the hints of its local structure types
\* name types of its own root scope.
WellFormedProgram(root) ==
    \A i \in DOMAIN root.functions :
       root.functions[i].local.structures
           \in LocalStructureLists(root.structures, root.tuples)

\* A scope object of the loaded program.
NewLoadedScope ==
    [ParentScope |-> 0, TupleTypeMap |-> <<>>, StructureTypeMap |-> <<>>, Constants |-> <<>>]

NewScopeLoader(extensions, root) ==
    [Buffer |-> ProgramFields(extensions, root), Offset |-> 0, IsPrepass |-> TRUE,
     ScopeIDMap |-> [i \in 1..4 |-> 0], scopes |-> <<NewLoadedScope>>,
     TupleOwnerMap |-> {}, StructureOwnerMap |-> {},
     structtype |-> <<>>, ret |-> 0, functions |-> {},
     installs |-> <<>>, walk1 |-> <<>>, walk2 |-> <<>>, prepassEnd |-> 0,
     threw |-> FALSE, ub |-> FALSE, source |-> root, pc |-> "CheckCookie"]

FieldsOk(S) == ~S.threw /\ ~S.ub

CurrentField(S) ==
    IF S.Offset < Len(S.Buffer) THEN S.Buffer[S.Offset + 1] ELSE EndOfBuffer

\* A string is taken as one field longer on the second pass
C35_ReadsStringsFurtherOnSecondPass(S) ==
    IF ~FieldsOk(S) THEN S
    ELSE IF S.IsPrepass THEN [S EXCEPT !.Offset = @ + 1, !.walk1 = Append(@, S.Offset)]
    ELSE [S EXCEPT !.Offset = @ + (IF CurrentField(S).k = "str" THEN 2 ELSE 1),
                   !.walk2 = Append(@, S.Offset)]

\* ReadNumber, ReadFlag, ReadNullTerminatedString, ReadInstruction, 151-229:
\* the field at Offset is consumed
ReadField(S) ==
    IF ~FieldsOk(S) THEN S
    ELSE IF S.IsPrepass THEN [S EXCEPT !.Offset = @ + 1, !.walk1 = Append(@, S.Offset)]
    ELSE [S EXCEPT !.Offset = @ + 1, !.walk2 = Append(@, S.Offset)]

\* ExpectInstruction, 139-145
ExpectField(S, ins) ==
    IF ~FieldsOk(S) THEN S
    ELSE IF CurrentField(S).k = "ins" /\ CurrentField(S).ins = ins THEN ReadField(S)
    ELSE [S EXCEPT !.threw = TRUE]

\* ScopeDescription::SetConstant on a std::vector<std::wstring>
SetConstant(scope, name) == [scope EXCEPT !.Constants = Append(@, name)]

\* 487-489: the loop over the constants, the same on both passes
RECURSIVE LoadConstants(_, _, _)
LoadConstants(S, obj, n) ==
    IF n = 0 \/ ~FieldsOk(S) THEN S
    ELSE LET name == CurrentField(S).str
             S1 == ReadField(S)
         IN  LoadConstants([S1 EXCEPT !.scopes[obj] = SetConstant(@, name)], obj, n - 1)

\* 404-411: the members of a tuple type
RECURSIVE LoadTupleMembers(_, _)
LoadTupleMembers(S, n) ==
    IF n = 0 \/ ~FieldsOk(S) THEN S
    ELSE LET name == CurrentField(S).str
             S3 == ReadField(ReadField(ReadField(S)))
         IN  LoadTupleMembers(
                 IF S.IsPrepass THEN S3
                 ELSE [S3 EXCEPT !.structtype = Append(@, TypeMember(name, "Integer", 0))],
                 n - 1)

\* 393-420: TupleTypeMap
RECURSIVE LoadTupleTypeMap(_, _, _)
LoadTupleTypeMap(S, obj, n) ==
    IF n = 0 \/ ~FieldsOk(S) THEN S
    ELSE LET id == CurrentField(S).num
             S1 == ExpectField(ReadField(S), "Members")
             S2 == LoadTupleMembers([ReadField(S1) EXCEPT !.structtype = <<>>],
                                    CurrentField(S1).num)
         IN  LoadTupleTypeMap(
                 IF ~FieldsOk(S2) \/ S.IsPrepass THEN S2
                 ELSE [S2 EXCEPT !.scopes[obj].TupleTypeMap = Append(@, CompositeType(id, S2.structtype)),
                                 !.TupleOwnerMap = @ \cup {id}],
                 obj, n - 1)

\* 456-474: the members of a structure type; a member of Structure or Tuple
\* type asks the owner of the type its hint names for the type.
RECURSIVE LoadStructureMembers(_, _, _)
LoadStructureMembers(S, structid, n) ==
    IF n = 0 \/ ~FieldsOk(S) THEN S
    ELSE LET name == CurrentField(S).str
             S1 == ReadField(S)
             type == CurrentField(S1).num
             S3 == ReadField(ReadField(S1))
             composite == type \in {2, 3}
             hint == IF composite THEN CurrentField(S3).num ELSE 0
             S4 == IF composite THEN ReadField(S3) ELSE S3
             member == TypeMember(name, IF type = 3 THEN "Structure" ELSE IF type = 2 THEN "Tuple" ELSE "Integer", hint)
             resolved == IF type = 3 THEN hint \in S.StructureOwnerMap ELSE hint \in S.TupleOwnerMap
         IN  LoadStructureMembers(
                 IF ~FieldsOk(S4) \/ S.IsPrepass THEN S4
                 ELSE IF composite
                 THEN [S4 EXCEPT !.structtype = IF resolved THEN Append(@, member) ELSE @,
                                 !.ub = ~resolved,
                                 !.installs = Append(@, [id |-> structid, member |-> member, resolved |-> resolved])]
                 ELSE [S4 EXCEPT !.structtype = Append(@, member)],
                 structid, n - 1)

\* 445-483: StructureTypeMap
RECURSIVE LoadStructureTypeMap(_, _, _)
LoadStructureTypeMap(S, obj, n) ==
    IF n = 0 \/ ~FieldsOk(S) THEN S
    ELSE LET id == CurrentField(S).num
             S1 == ExpectField(ReadField(S), "Members")
             S2 == LoadStructureMembers([ReadField(S1) EXCEPT !.structtype = <<>>],
                                        id, CurrentField(S1).num)
         IN  LoadStructureTypeMap(
                 IF ~FieldsOk(S2) \/ S.IsPrepass THEN S2
                 ELSE [S2 EXCEPT !.scopes[obj].StructureTypeMap = Append(@, CompositeType(id, S2.structtype)),
                                 !.StructureOwnerMap = @ \cup {id}],
                 obj, n - 1)

\* A section whose count is zero in every stream loaded here: the
\* instruction and the count are read.
ReadEmptySection(S, ins) ==
    LET S1 == ExpectField(S, ins)
    IN  IF ~FieldsOk(S1) THEN S1
        ELSE IF CurrentField(S1).num # 0 THEN [S1 EXCEPT !.threw = TRUE]
        ELSE ReadField(S1)

\* LoadCodeBlock, 629-644, of a block without operations
LoadEmptyCodeBlock(S) == ExpectField(S, "EndBlock")

RECURSIVE LoadScopeFields(_, _)
RECURSIVE LoadUserFunctions(_, _, _)

\* 312-357: the user functions of a scope
LoadUserFunctions(S, obj, n) ==
    IF n = 0 \/ ~FieldsOk(S) THEN S
    ELSE LET S1 == ReadField(S)
             funcid == CurrentField(S1).num
             S3 == ReadField(ReadField(S1))
             params == LoadScopeFields(S3, FALSE)
             returns == LoadScopeFields(params, FALSE)
             localscope == LoadScopeFields(ExpectField(returns, "BeginBlock"), FALSE)
             S4 == LoadEmptyCodeBlock(localscope)
         IN  LoadUserFunctions(
                 IF ~FieldsOk(S4) THEN S4
                 ELSE IF S.IsPrepass THEN [S4 EXCEPT !.functions = @ \cup {funcid}]
                 ELSE IF funcid \notin S4.functions THEN [S4 EXCEPT !.ub = TRUE]
                 ELSE S4,
                 obj, n - 1)

\* LoadScope, 241-557
LoadScopeFields(S, linktoglobal) ==
    LET S1 == ExpectField(S, "Scope")
        scopeid == CurrentField(S1).num
        S2 == ReadField(S1)
        S3 == IF linktoglobal THEN [S2 EXCEPT !.ScopeIDMap[scopeid] = 1]
              ELSE IF S.IsPrepass
              THEN [S2 EXCEPT !.scopes = Append(@, NewLoadedScope),
                              !.ScopeIDMap[scopeid] = Len(S2.scopes) + 1]
              ELSE S2
        obj == S3.ScopeIDMap[scopeid]
        S4 == ExpectField(S3, "ParentScope")
        parentscopeid == CurrentField(S4).num
        S5 == IF parentscopeid # 0 /\ ~S.IsPrepass
              THEN IF obj = 0 \/ S4.ScopeIDMap[parentscopeid] = 0 THEN [S4 EXCEPT !.ub = TRUE]
                   ELSE [ReadField(S4) EXCEPT !.scopes[obj].ParentScope = S4.ScopeIDMap[parentscopeid]]
              ELSE ReadField(S4)
        S6 == ExpectField(ReadEmptySection(ReadEmptySection(S5, "Variables"), "Ghosts"), "Functions")
        S7 == LoadUserFunctions(ReadField(S6), obj, CurrentField(S6).num)
        S8 == ExpectField(ReadEmptySection(ReadEmptySection(ReadEmptySection(S7,
                  "FunctionSignatureList"), "TupleTypes"), "TupleHints"), "TupleTypeMap")
        S9 == LoadTupleTypeMap(ReadField(S8), obj, CurrentField(S8).num)
        S10 == ExpectField(ReadEmptySection(ReadEmptySection(S9,
                  "StructureTypes"), "StructureHints"), "StructureTypeMap")
        S11 == LoadStructureTypeMap(ReadField(S10), obj, CurrentField(S10).num)
        S12 == ExpectField(S11, "Constants")
        S13 == LoadConstants(ReadField(S12), obj, CurrentField(S12).num)
        S14 == ExpectField(ReadEmptySection(ReadEmptySection(ReadEmptySection(S13,
                  "ResponseMaps"), "Futures"), "ArrayHints"), "EndScope")
    IN  IF ~FieldsOk(S1) THEN S1
        ELSE IF ~linktoglobal /\ ~S.IsPrepass /\ obj = 0 THEN [S2 EXCEPT !.ub = TRUE]
        ELSE IF ~FieldsOk(S5) THEN S5
        ELSE IF ~FieldsOk(S6) THEN S6
        ELSE IF ~FieldsOk(S8) THEN S8
        ELSE IF ~FieldsOk(S10) THEN S10
        ELSE IF ~FieldsOk(S12) THEN S12
        ELSE [S14 EXCEPT !.ret = obj]

\* CheckCookie, 118-124
ScopeCheckCookie ==
    /\ ld.pc = "CheckCookie"
    /\ ld' = [ExpectField(ld, "Cookie") EXCEPT !.pc = IF ld.threw THEN "failed" ELSE "CheckFlags"]
    /\ UNCHANGED <<ps, rt>>

\* CheckFlags, 130-135
ScopeCheckFlags ==
    /\ ld.pc = "CheckFlags" /\ FieldsOk(ld)
    /\ ld' = [ReadField(ld) EXCEPT !.pc = "CheckExtensions"]
    /\ UNCHANGED <<ps, rt>>

\* CheckExtensions, 1509-1520: the count, then one name for each extension
ScopeCheckExtensions ==
    /\ ld.pc = "CheckExtensions" /\ FieldsOk(ld)
    /\ LET numextensions == CurrentField(ld).num
           names[i \in 0..numextensions] ==
               IF i = 0 THEN ReadField(ld) ELSE ReadField(names[i - 1])
       IN  ld' = [names[numextensions] EXCEPT !.pc = "LoadScope"]
    /\ UNCHANGED <<ps, rt>>

\* LoadScope(true), 78 and 86
ScopeLoadRoot ==
    /\ ld.pc = "LoadScope" /\ FieldsOk(ld)
    /\ ld' = [LoadScopeFields(ld, TRUE) EXCEPT
                !.pc = IF ld.IsPrepass THEN "SecondPass" ELSE "LoadGlobalInitBlock"]
    /\ UNCHANGED <<ps, rt>>

\* 80-81: Offset = 0; IsPrepass = false
ScopeSecondPass ==
    /\ ld.pc = "SecondPass" /\ FieldsOk(ld)
    /\ ld' = [ld EXCEPT !.Offset = 0, !.IsPrepass = FALSE, !.prepassEnd = ld.Offset,
                        !.pc = "CheckCookie"]
    /\ UNCHANGED <<ps, rt>>

InitScope ==
    /\ ld \in {NewScopeLoader(extensions, root) :
                  extensions \in 0..MaxExtensions,
                  root \in {r \in SourcePrograms : WellFormedProgram(r)}}
    /\ ps = 0
    /\ rt = 0

NextScope ==
    \/ ScopeCheckCookie
    \/ ScopeCheckFlags
    \/ ScopeCheckExtensions
    \/ ScopeLoadRoot
    \/ ScopeSecondPass

SpecScope == InitScope /\ [][NextScope]_vars

\* The second pass has loaded the root scope.
RootScopeLoaded == ld.pc = "LoadGlobalInitBlock" /\ FieldsOk(ld)

\* C33: on the second pass, whenever a structure type with a member of
\* Tuple or Structure type is installed, the type the member's hint names is
\* already in the Type Registry, a structure of a function's local scope
\* with a member of a type of the enclosing scope included.
C33_HintResolvesWhenInstalled ==
    \A i \in DOMAIN ld.installs : ld.installs[i].resolved

\* How often a name occurs in a list of constants.
Occurrences(constants, name) == Len(SelectSeq(constants, LAMBDA c : c = name))

ConstantsOnce(sc) ==
    \A i \in DOMAIN sc.constants :
       Occurrences(ld.scopes[ld.ScopeIDMap[sc.id]].Constants, sc.constants[i]) = 1

C35_SameOffsetsOnBothPasses ==
    /\ Len(ld.walk2) <= Len(ld.walk1)
    /\ ld.walk2 = SubSeq(ld.walk1, 1, Len(ld.walk2))
    /\ RootScopeLoaded => ld.Offset = ld.prepassEnd /\ ld.walk2 = ld.walk1

\* Both passes completed over a stream with an extension name, a function
\* whose local scope declares a structure type, and constants.
C35_BothPassesCompleted ==
    /\ RootScopeLoaded
    /\ ld.prepassEnd = Len(ld.Buffer)
    /\ ld.Buffer[3].num = 1
    /\ ld.source.functions # <<>>
    /\ ld.source.functions[1].local.structures # <<>>
    /\ ld.source.constants # <<>>

\* ---------------------------------------------------------------------
\* The depth of the infix stacks and the passes of TerminateInfixExpression
\* (Infix.cpp 319-333, 341-392, 478-498, 603-631, 676-680).

InfixDepth(P) == Len(P.InfixOperatorList)

\* The loop of TerminateInfixExpression (lines 345-347), pass by pass, for
\* at most `fuel` passes: how many passes ran, whether a pass ended the
\* loop, and whether every pass that returned true took one entry off the
\* operator lists and one off the operand counts.
RECURSIVE FinalizePasses(_, _, _)
FinalizePasses(P, firstrun, fuel) ==
    LET r == FinalizeInfixExpression(P, firstrun)
        removed == /\ Len(r.P.InfixOperatorList) = Len(P.InfixOperatorList) - 1
                   /\ Len(r.P.InfixOperandCount) = Len(P.InfixOperandCount) - 1
        rest == FinalizePasses(r.P, FALSE, fuel - 1)
    IN  IF fuel = 0 THEN [passes |-> 0, ended |-> FALSE, removes |-> TRUE]
        ELSE IF r.ret /\ Alive(r.P)
        THEN [passes |-> 1 + rest.passes, ended |-> rest.ended,
              removes |-> removed /\ rest.removes]
        ELSE [passes |-> 1, ended |-> TRUE, removes |-> TRUE]

\* C36: from every builder state the loop of TerminateInfixExpression ends
\* within as many passes as the infix stacks are deep, plus one, and every
\* pass of FinalizeInfixExpression that returns true has removed one level
\* from the operator lists and one from the operand counts.
C36_PassesBoundedByDepth ==
    Alive(ps) =>
        LET run == FinalizePasses(ps, TRUE, InfixDepth(ps) + 1)
        IN  run.ended /\ run.removes

\* A chained assignment about to be terminated: the loop takes three
\* passes, two of which return true.
C36_ThreePassesAhead ==
    /\ Alive(ps) /\ ps.ph = "operator" /\ Len(ps.phrase.targets) = 2
    /\ InfixDepth(ps) >= 2
    /\ FinalizePasses(ps, TRUE, InfixDepth(ps) + 1).passes = 3

====
